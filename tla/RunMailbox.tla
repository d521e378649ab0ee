------------------------------ MODULE RunMailbox ------------------------------
(***************************************************************************)
(* The mailbox of one Run: mail is sent to panes, to the Run or to the     *)
(* mailbox of a dispatch; the pane bound to the Run reads it with          *)
(* orchestration.check in batches (deliveries) it acknowledges in a later  *)
(* check.  Binding another pane (run-use) starts a consumer generation and *)
(* fences the outstanding batch.  A check awaits between the pages it      *)
(* routes and while it waits for mail, and everything may change meanwhile.*)
(*                                                                         *)
(* A pane has one terminal handle, which stands for both.  Reading direct  *)
(* mail, from a pane neither bound nor at work, is left out.  An operator  *)
(* Buggy<X> is operator <X> with a plausible bug; the model uses none.     *)
(***************************************************************************)
EXTENDS Naturals, Sequences, FiniteSets

CONSTANTS
  Coordinators,   \* panes that bind the Run
  Workers,        \* panes a dispatch of the Run may be assigned to
  Callers,        \* calls of orchestration.check in flight at a time
  Types,          \* message types
  Heartbeat, WorkerDone,  \* the types in which the dispatch reports
  Filters,        \* subsets of Types a check names; {} when it names none
  Modes,          \* what a check asks for: <<mode, wait>>; "look" is --all or --peek
  Batch,          \* ORCHESTRATION_DELIVERY_BATCH_LIMIT, 50 in the code
  MaxMail,        \* bound: messages
  MaxBinds,       \* bound: consumer generations
  MaxDeliveries,  \* bound: batches
  NoPane

Panes == Coordinators \cup Workers

ASSUME MailboxConstants ==
  /\ Filters \subseteq SUBSET Types /\ {Heartbeat, WorkerDone} \subseteq Types
  /\ Heartbeat # WorkerDone
  /\ Modes \subseteq {"read", "look"} \X BOOLEAN
  /\ NoPane \notin Panes /\ Panes \cap {"run", "dispatch"} = {}
  /\ {Batch, MaxMail, MaxBinds, MaxDeliveries} \subseteq Nat \ {0}

VARIABLES
  mail,        \* messages by sequence: mailbox, type, read
  run,         \* coordinator_pane_key and consumer_generation
  known,       \* run_coordinator_handles
  elsewhere,   \* panes bound to another Run
  deliveries,  \* by order of creation: generation, messages, status
  dispatch,    \* a dispatch of the Run: its assignee and whether it is active
  check,       \* the calls in flight
  answered,    \* pane |-> deliveries an answer brought it
  superseded,  \* heartbeats marked read because their dispatch is over
  replied      \* mail marked read because somebody replied to it

vars == <<mail, run, known, elsewhere, deliveries, dispatch, check, answered, superseded, replied>>

Idle == [pc |-> "idle", pane |-> NoPane, box |-> "none", mode |-> "read", wait |-> FALSE,
         types |-> {}, ack |-> 0, generation |-> 0, through |-> 0, moved |-> {},
         result |-> "none"]

Init ==
  \E p \in Coordinators :
    /\ mail = <<>> /\ run = [pane |-> p, generation |-> 1] /\ known = {p} /\ elsewhere = {}
    /\ deliveries = <<>> /\ dispatch = [pane |-> NoPane, active |-> FALSE]
    /\ check = [c \in Callers |-> Idle] /\ answered = [q \in Panes |-> {}]
    /\ superseded = {} /\ replied = {}

(***************************************************************************)
(* Mail                                                                    *)
(***************************************************************************)
Working(p)     == dispatch.active /\ dispatch.pane = p
Matches(t, fs) == fs = {} \/ t \in fs
Unread(box)    == {i \in DOMAIN mail : mail[i].box = box /\ ~mail[i].read}
UnreadIn(box, fs) == {i \in Unread(box) : Matches(mail[i].type, fs)}
BuggyFirstOf(S, n) == {i \in S : Cardinality({j \in S : j < i}) <= n}
FirstOf(S, n)  == {i \in S : Cardinality({j \in S : j < i}) < n}
Largest(S)     == IF S = {} THEN 0 ELSE CHOOSE i \in S : \A j \in S : j <= i

Marked(msgs, S) == [i \in DOMAIN msgs |-> IF i \in S THEN [msgs[i] EXCEPT !.read = TRUE] ELSE msgs[i]]
Moved(S, box)   == [i \in DOMAIN mail |-> IF i \in S THEN [mail[i] EXCEPT !.box = box] ELSE mail[i]]

\* A new message wakes the waiting checks of the mailbox that want its type.
Notified(checks, box, types) ==
  [c \in Callers |->
     IF checks[c].pc = "waiting" /\ checks[c].box = box
        /\ \E t \in types : Matches(t, checks[c].types)
     THEN [checks[c] EXCEPT !.pc = "woken", !.result = "notified"]
     ELSE checks[c]]

\* A binding cancels the waiting checks of the Run's mailbox.
Cancelled ==
  [c \in Callers |->
     IF check[c].pc = "waiting" /\ check[c].box = "run"
     THEN [check[c] EXCEPT !.pc = "woken", !.result = "over"]
     ELSE check[c]]

\* The mailbox a handle stands for: the Run it coordinates, the dispatch it
\* works on, the Run it once coordinated, its own.
Recipient(p) ==
  IF run.pane = p THEN "run"
  ELSE IF Working(p) THEN "dispatch"
  ELSE IF p \in known THEN "run" ELSE p

NewMail(box, t, read) == [box |-> box, type |-> t, read |-> read]

\* Unread mail that wakes who waits for it: all but what follows, and also
\* reports of the dispatch that are rejected or not yet obsolete.
Insert(box, t) ==
  /\ mail' = Append(mail, NewMail(box, t, FALSE))
  /\ check' = Notified(check, box, {t})
  /\ UNCHANGED <<run, known, elsewhere, deliveries, dispatch, answered, superseded, replied>>

\* A heartbeat that comes after its dispatch is over is kept, already read.
InsertObsolete(box, t) ==
  /\ t = Heartbeat /\ ~dispatch.active
  /\ mail' = Append(mail, NewMail(box, t, TRUE))
  /\ superseded' = superseded \cup {Len(mail) + 1}
  /\ UNCHANGED <<run, known, elsewhere, deliveries, dispatch, check, answered, replied>>

\* suppressEarlierHeartbeats, also those of a batch that is handed out
BuggySuperseded(box) == Unread(box)
Superseded(box) == {i \in Unread(box) : mail[i].type = Heartbeat}

\* A worker_done that is accepted ends the dispatch.
InsertReport(box, t) ==
  /\ t = WorkerDone
  /\ dispatch' = [dispatch EXCEPT !.active = FALSE]
  /\ mail' = Append(Marked(mail, Superseded(box)), NewMail(box, t, FALSE))
  /\ superseded' = superseded \cup Superseded(box)
  /\ check' = Notified(check, box, {t})
  /\ UNCHANGED <<run, known, elsewhere, deliveries, answered, replied>>

Send(box, t) ==
  /\ Len(mail) < MaxMail
  /\ t \in {Heartbeat, WorkerDone} => dispatch.pane # NoPane
  /\ Insert(box, t) \/ InsertObsolete(box, t) \/ InsertReport(box, t)

SendToRun(t)      == Send("run", t)
SendToDispatch(t) == dispatch.active /\ Send("dispatch", t)
SendToPane(p, t)  == p \notin elsewhere /\ Send(Recipient(p), t)

\* orchestration.reply marks the message it answers, whoever calls it; the
\* reply goes to the sender, who may be in no mailbox of this Run.
Reply(i) ==
  /\ replied' = IF mail[i].read THEN replied ELSE replied \cup {i}
  /\ \/ mail' = Marked(mail, {i}) /\ UNCHANGED check
     \/ \E box \in {"run"} \cup {Recipient(p) : p \in Panes}
                            \cup (IF dispatch.pane = NoPane THEN {} ELSE {"dispatch"}),
           t \in Types \ {Heartbeat, WorkerDone} :
          /\ Len(mail) < MaxMail
          /\ mail' = Append(Marked(mail, {i}), NewMail(box, t, FALSE))
          /\ check' = Notified(check, box, {t})
  /\ UNCHANGED <<run, known, elsewhere, deliveries, dispatch, answered, superseded>>

(***************************************************************************)
(* Binding                                                                 *)
(***************************************************************************)
\* Direct mail of a pane that works on a dispatch stays with the dispatch.
DirectMail(p) == IF Working(p) THEN {} ELSE Unread(p)

BuggyFence == deliveries
Fence == [d \in DOMAIN deliveries |->
            IF deliveries[d].status = "outstanding"
            THEN [deliveries[d] EXCEPT !.status = "fenced"] ELSE deliveries[d]]

\* run-use: binding the pane that is bound changes no generation, but its
\* direct mail is routed and every waiter is cancelled all the same.
RunUse(p) ==
  /\ mail' = Moved(DirectMail(p) \cup (IF run.pane = NoPane THEN {} ELSE DirectMail(run.pane)), "run")
  /\ known' = known \cup {p}
  /\ elsewhere' = elsewhere \ {p}
  /\ IF run.pane = p
     THEN UNCHANGED <<run, deliveries>>
     ELSE /\ run.generation < MaxBinds
          /\ run' = [pane |-> p, generation |-> run.generation + 1]
          /\ deliveries' = Fence
  /\ check' = Cancelled
  /\ UNCHANGED <<dispatch, answered, superseded, replied>>

\* run-create, or run-use of another Run: the pane leaves this one.
Leave(p) ==
  /\ run.pane = p /\ run.generation < MaxBinds
  /\ elsewhere' = elsewhere \cup {p}
  /\ mail' = Moved(DirectMail(p), "run")
  /\ run' = [pane |-> NoPane, generation |-> run.generation + 1]
  /\ deliveries' = Fence
  /\ check' = Cancelled
  /\ UNCHANGED <<known, dispatch, answered, superseded, replied>>

\* A dispatch starts and settles elsewhere (OrchestrationDb); only its
\* activity matters here.
Assign(p) ==
  /\ dispatch.pane = NoPane
  /\ dispatch' = [pane |-> p, active |-> TRUE]
  /\ UNCHANGED <<mail, run, known, elsewhere, deliveries, check, answered, superseded, replied>>

Settle ==
  /\ dispatch.active
  /\ dispatch' = [dispatch EXCEPT !.active = FALSE]
  /\ UNCHANGED <<mail, run, known, elsewhere, deliveries, check, answered, superseded, replied>>

(***************************************************************************)
(* orchestration.check                                                     *)
(***************************************************************************)
\* Direct mail a check takes along: up to the last message at its start, in
\* pages.  Only the Run's routing spares the mail of a pane at work.
ToRoute(k) == {i \in IF k.box = "run" THEN DirectMail(k.pane) ELSE Unread(k.pane) : i <= k.through}

Begin(c, p, call) ==
  /\ check[c] = Idle /\ p \notin elsewhere
  /\ check' = [check EXCEPT ![c] = call]
  /\ UNCHANGED <<mail, run, known, elsewhere, deliveries, dispatch, answered, superseded, replied>>

Call(p, box, mode, wait, fs, ack) ==
  [Idle EXCEPT !.pc = IF Unread(p) = {} THEN "acting" ELSE "routing",
               !.pane = p, !.box = box, !.mode = mode, !.wait = wait, !.types = fs,
               !.ack = ack, !.generation = IF box = "run" THEN run.generation ELSE 0,
               !.through = Largest(Unread(p))]

\* The pane bound to the Run reads the Run's mailbox, and may acknowledge a
\* batch an answer has brought it.
BeginRun(c, p, mode, wait, fs, ack) ==
  /\ run.pane = p
  /\ Begin(c, p, Call(p, "run", mode, wait, fs, ack))

BeginDispatch(c, p, mode, wait, fs) ==
  /\ run.pane # p /\ Working(p)
  /\ Begin(c, p, Call(p, "dispatch", mode, wait, fs, 0))

RoutePage(c) ==
  LET k    == check[c]
      page == FirstOf(ToRoute(k), Batch)
  IN /\ k.pc = "routing"
     /\ mail' = Moved(page, k.box)
     /\ check' = IF ToRoute(k) = page
                 THEN [check EXCEPT ![c].pc = "acting", ![c].through = 0] ELSE check
     /\ UNCHANGED <<run, known, elsewhere, deliveries, dispatch, answered, superseded, replied>>

\* requireCurrentConsumer, and the comparisons of the handler.
BuggyCurrent(k) == run.pane # NoPane
Current(k) == run.generation = k.generation

Outstanding(dels) == {d \in DOMAIN dels : dels[d].status = "outstanding"}

AckFits(k) ==
  k.ack # 0 => deliveries[k.ack].generation = k.generation /\ deliveries[k.ack].status # "fenced"

\* acknowledgeRunDelivery: what is read once batch d is acknowledged
ReadBy(d) == IF d = 0 \/ deliveries[d].status = "acknowledged" THEN {} ELSE deliveries[d].messages

Acked(d) == IF d = 0 THEN deliveries ELSE [deliveries EXCEPT ![d].status = "acknowledged"]

\* getOrCreateRunDelivery: the outstanding batch, or a new one of the oldest
\* unread mail when some of it is of a type that wakes the caller
WithBatch(msgs, dels, k, wake) ==
  LET unread == {i \in DOMAIN msgs : msgs[i].box = "run" /\ ~msgs[i].read}
  IN IF Outstanding(dels) # {} \/ ~\E i \in unread : Matches(msgs[i].type, wake)
     THEN dels
     ELSE Append(dels, [generation |-> k.generation, status |-> "outstanding",
                        messages |-> FirstOf(unread, Batch)])

Ended(c) == [check EXCEPT ![c] = Idle]
Awaits(c) ==
  [check EXCEPT ![c].pc = IF \E w \in Callers : check[w].pc = "waiting" /\ check[w].box = "run"
                          THEN "woken" ELSE "waiting",
                ![c].result = "over", ![c].ack = 0]

\* An answer that is lost is one the pane never acknowledges.
Answer(p, d) == answered' = [answered EXCEPT ![p] = @ \cup {d}]

\* The mailbox gives the call a batch of its own generation, or none.
Serve(c, dels) ==
  /\ Len(dels) <= MaxDeliveries
  /\ deliveries' = dels
  /\ \A d \in Outstanding(dels) : IF dels[d].generation = check[c].generation
                                  THEN Answer(check[c].pane, d) ELSE UNCHANGED answered
  /\ Outstanding(dels) = {} => UNCHANGED answered

\* After the routing the handler revalidates its generation, acknowledges,
\* reads and, finding nothing, registers the waiter without a pause.
ActOnRun(c) ==
  LET k    == check[c]
      msgs == Marked(mail, ReadBy(k.ack))
      dels == WithBatch(msgs, Acked(k.ack), k, IF k.wait THEN k.types ELSE {})
      peeked == {i \in DOMAIN msgs : msgs[i].box = "run" /\ ~msgs[i].read
                                     /\ Matches(msgs[i].type, k.types)}
  IN /\ k.pc = "acting" /\ k.box = "run"
     /\ IF run.pane = k.pane /\ Current(k) /\ AckFits(k)
        THEN /\ mail' = msgs
             /\ IF k.mode = "read"
                THEN Serve(c, dels)
                ELSE deliveries' = Acked(k.ack) /\ UNCHANGED answered
             /\ check' = IF k.wait /\ (IF k.mode = "read" THEN Outstanding(dels) ELSE peeked) = {}
                         THEN Awaits(c) ELSE Ended(c)
        ELSE /\ check' = Ended(c)
             /\ UNCHANGED <<mail, deliveries, answered>>
     /\ UNCHANGED <<run, known, elsewhere, dispatch, superseded, replied>>

\* The wait is over; the handler continues in a later microtask.
ResumeOnRun(c) ==
  LET k == check[c]
  IN /\ k.pc = "woken" /\ k.box = "run"
     /\ check' = Ended(c)
     /\ IF Current(k) /\ k.result = "notified" /\ k.mode = "read"
        THEN Serve(c, WithBatch(mail, deliveries, k, k.types))
        ELSE UNCHANGED <<deliveries, answered>>
     /\ UNCHANGED <<mail, run, known, elsewhere, dispatch, superseded, replied>>

\* A worker's check reads and marks at once.  The second read, after a wait,
\* marks whatever the mode.
Taken(c, marks) ==
  /\ mail' = IF marks THEN Marked(mail, UnreadIn(check[c].box, check[c].types)) ELSE mail
  /\ check' = Ended(c)

\* The dispatch settled under the check: its mail goes to the Run.
StartForwarding(c) ==
  /\ check' = IF Unread("dispatch") = {} THEN Ended(c)
              ELSE [check EXCEPT ![c] = [Idle EXCEPT !.pc = "forwarding", !.pane = check[c].pane,
                                                     !.through = Largest(Unread("dispatch"))]]
  /\ UNCHANGED mail

ActOnDispatch(c) ==
  LET k == check[c]
  IN /\ k.pc = "acting" /\ k.box = "dispatch"
     /\ IF ~Working(k.pane) THEN StartForwarding(c)
        ELSE IF UnreadIn("dispatch", k.types) = {} /\ k.wait
        THEN check' = [check EXCEPT ![c].pc = "waiting"] /\ UNCHANGED mail
        ELSE Taken(c, k.mode = "read")
     /\ UNCHANGED <<run, known, elsewhere, deliveries, dispatch, answered, superseded, replied>>

ResumeOnDispatch(c) ==
  LET k == check[c]
  IN /\ k.pc = "woken" /\ k.box = "dispatch"
     /\ IF Working(k.pane) THEN Taken(c, k.result = "notified") ELSE StartForwarding(c)
     /\ UNCHANGED <<run, known, elsewhere, deliveries, dispatch, answered, superseded, replied>>

\* The types a finished forwarding announces
BuggyForwardedTypes(moved, page) == {mail[i].type : i \in page}
ForwardedTypes(moved, page) == moved \cup {mail[i].type : i \in page}

\* The Run's waiters hear of the types when the last page is moved.
ForwardPage(c) ==
  LET k     == check[c]
      left  == {i \in Unread("dispatch") : i <= k.through}
      page  == FirstOf(left, Batch)
      moved == ForwardedTypes(k.moved, page)
  IN /\ k.pc = "forwarding"
     /\ mail' = Moved(page, "run")
     /\ check' = IF page = left THEN Notified(Ended(c), "run", moved)
                 ELSE [check EXCEPT ![c].moved = moved]
     /\ UNCHANGED <<run, known, elsewhere, deliveries, dispatch, answered, superseded, replied>>

TimeOut(c) ==
  /\ check[c].pc = "waiting"
  /\ check' = [check EXCEPT ![c].pc = "woken", ![c].result = "over"]
  /\ UNCHANGED <<mail, run, known, elsewhere, deliveries, dispatch, answered, superseded, replied>>

\* The caller disconnects.  A forwarding it leaves behind announces what it
\* has moved and goes on.
Abort(c) ==
  /\ check' = CASE check[c].pc = "routing" -> Ended(c)
                [] check[c].pc = "waiting" ->
                     [check EXCEPT ![c].pc = "woken", ![c].result = "over"]
                [] check[c].pc = "forwarding" ->
                     Notified([check EXCEPT ![c].moved = {}], "run", check[c].moved)
                [] OTHER -> check
  /\ check' # check
  /\ UNCHANGED <<mail, run, known, elsewhere, deliveries, dispatch, answered, superseded, replied>>

\* The runtime restarts: the database stays, the calls are gone.
Restart ==
  /\ \E c \in Callers : check[c] # Idle
  /\ check' = [c \in Callers |-> Idle]
  /\ UNCHANGED <<mail, run, known, elsewhere, deliveries, dispatch, answered, superseded, replied>>

Checks(c) ==
  \/ \E p \in Panes, m \in Modes, fs \in Filters :
       \/ \E ack \in answered[p] \cup {0} : BeginRun(c, p, m[1], m[2], fs, ack)
       \/ BeginDispatch(c, p, m[1], m[2], fs)
  \/ RoutePage(c) \/ ActOnRun(c) \/ ResumeOnRun(c)
  \/ ActOnDispatch(c) \/ ResumeOnDispatch(c) \/ ForwardPage(c)
  \/ TimeOut(c) \/ Abort(c)

Next ==
  \/ \E t \in Types : SendToRun(t) \/ SendToDispatch(t) \/ \E p \in Panes : SendToPane(p, t)
  \/ \E i \in DOMAIN mail : Reply(i)
  \/ \E p \in Coordinators : RunUse(p) \/ Leave(p)
  \/ \E p \in Workers : Assign(p)
  \/ Settle
  \/ \E c \in Callers : Checks(c)
  \/ Restart

Spec == Init /\ [][Next]_vars

(***************************************************************************)
(* Properties                                                              *)
(***************************************************************************)
Steps == {"idle", "routing", "acting", "waiting", "woken", "forwarding"}

\* Every variable keeps its type; a batch is neither empty nor larger than
\* the limit of a delivery.
TypeOK ==
  /\ mail \in Seq([box : Panes \cup {"run", "dispatch"}, type : Types, read : BOOLEAN])
  /\ run \in [pane : Coordinators \cup {NoPane}, generation : 1 .. MaxBinds]
  /\ known \subseteq Coordinators /\ elsewhere \subseteq Coordinators
  /\ deliveries \in Seq([generation : 1 .. MaxBinds, messages : SUBSET (DOMAIN mail),
                         status : {"outstanding", "acknowledged", "fenced"}])
  /\ \A d \in DOMAIN deliveries : Cardinality(deliveries[d].messages) \in 1 .. Batch
  /\ dispatch \in [pane : Workers \cup {NoPane}, active : BOOLEAN]
  /\ \A c \in Callers : check[c].pc \in Steps /\ (check[c].pc # "idle" => check[c].pane \in Panes)
  /\ answered \in [Panes -> SUBSET (DOMAIN deliveries)]
  /\ superseded \subseteq DOMAIN mail /\ replied \subseteq DOMAIN mail

\* At most one batch is outstanding.  It belongs to the current generation,
\* and no other check has read or moved its mail: takeovers fence it, and no
\* check acts for a generation that is over.  What it holds is unread, has
\* been replied to, or is a heartbeat of a dispatch that is over.
OneIntactBatch ==
  /\ Cardinality(Outstanding(deliveries)) <= 1
  /\ \A d \in Outstanding(deliveries) :
       /\ deliveries[d].generation = run.generation
       /\ \A i \in deliveries[d].messages :
            /\ mail[i].box = "run"
            /\ mail[i].read => \/ i \in replied
                               \/ i \in superseded /\ mail[i].type = Heartbeat /\ ~dispatch.active

\* No consumer sleeps on mail it waits for: whatever path brings a message of
\* a wanted type into the Run's mailbox wakes the waiting check, or is still
\* moving mail and will.
NoSleepingConsumer ==
  \A c \in Callers : check[c].pc = "waiting" /\ check[c].box = "run" =>
    \A i \in UnreadIn("run", check[c].types) :
      \E f \in Callers : check[f].pc = "forwarding" /\ mail[i].type \in check[f].moved

\* A batch is answered only to the pane that is bound to the Run when the
\* answer is given, and to a call of the generation that opened the batch: a
\* fenced consumer gets none of its successor's mail.
AnswersCurrentConsumer ==
  [][\A p \in Panes : \A d \in answered'[p] \ answered[p] :
       /\ run.pane = p /\ deliveries'[d].generation = run.generation
       /\ deliveries'[d].status = "outstanding"]_vars

\* The mailbox is a lease on its mail: see ConsumerLease.
InRun(S) == {i \in S : mail[i].box = "run"}
Lease == INSTANCE ConsumerLease WITH
  generation <- run.generation,
  posted     <- InRun(DOMAIN mail),
  beats      <- {i \in InRun(DOMAIN mail) : mail[i].type = Heartbeat},
  superseded <- InRun(superseded),
  replied    <- InRun(replied),
  out        <- UNION {deliveries[d].messages : d \in Outstanding(deliveries)},
  done       <- {i \in InRun(DOMAIN mail) : mail[i].read /\ i \notin superseded \cup replied}
ImplementsLease == Lease!Spec
===============================================================================
