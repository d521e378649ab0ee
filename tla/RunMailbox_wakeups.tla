------------------------- MODULE RunMailbox_wakeups -------------------------
(* No consumer of a Run mailbox sleeps on mail it waits for, as long as no *)
(* pane both binds the Run and works for it.                               *)
EXTENDS RunMailbox_proofs

(***************************************************************************)
(* The inductive invariant                                                 *)
(***************************************************************************)
\* The bound pane has no direct mail: binding took it along, and what is sent
\* to the pane goes to the Run.  So a check of the Run's mailbox has nothing
\* to route while another one sleeps.
NothingToRoute ==
  /\ run.pane # NoPane => Unread(run.pane) = {}
  /\ \A c \in Callers : check[c].pc = "routing" => check[c].box # "run"

WInv == IInv /\ NothingToRoute /\ NoSleepingConsumer

Sleeps(k) == k.pc = "waiting" /\ k.box = "run"

\* Mail a check that names these types waits for
Wanted(msgs, types) == {i \in RunMail(msgs) : Matches(msgs[i].type, types)}

\* Mail of this type has been forwarded and will be announced.
Promised(calls, type) == \E f \in Callers : calls[f].pc = "forwarding" /\ type \in calls[f].moved

\* A sleeper that sleeps on: nothing it wants has come unpromised, and no
\* promise it relies on is dropped.
Undisturbed(c) ==
  /\ Sleeps(check[c]) /\ check'[c].types = check[c].types
  /\ \A i \in Wanted(mail', check[c].types) :
       \/ i \in Wanted(mail, check[c].types) /\ mail'[i].type = mail[i].type
       \/ Promised(check', mail'[i].type)
  /\ \A type : Promised(check, type) /\ Matches(type, check[c].types) => Promised(check', type)

LEMMA SleepersKept ==
  ASSUME NoSleepingConsumer,
         \A c \in Callers : Sleeps(check'[c]) => Wanted(mail', check'[c].types) = {} \/ Undisturbed(c)
  PROVE  NoSleepingConsumer'
<1>1. \A c \in Callers : Sleeps(check[c]) =>
        \A i \in Wanted(mail, check[c].types) : Promised(check, mail[i].type)
  BY DEF NoSleepingConsumer, Sleeps, Wanted, Promised, UnreadIn, Unread, RunMail
<1>2. ASSUME NEW c \in Callers, Sleeps(check'[c]), NEW i \in Wanted(mail', check'[c].types)
      PROVE  Promised(check', mail'[i].type)
  <2>1. Undisturbed(c)
    BY <1>2
  <2>2. CASE i \in Wanted(mail, check[c].types) /\ mail'[i].type = mail[i].type
    <3>1. Promised(check, mail[i].type) /\ Matches(mail[i].type, check[c].types)
      BY <1>1, <2>1, <2>2 DEF Undisturbed, Wanted
    <3> QED
      BY <2>1, <2>2, <3>1 DEF Undisturbed
  <2> QED
    BY <1>2, <2>1, <2>2 DEF Undisturbed
<1> QED
  BY <1>2 DEF NoSleepingConsumer, Sleeps, Wanted, Promised, UnreadIn, Unread, RunMail

\* The usual step: who sleeps afterwards slept before, no mail has come into
\* the Run's mailbox, and no forwarding has ended.
LEMMA SleepOn ==
  ASSUME NoSleepingConsumer, RunMail(mail') \subseteq RunMail(mail),
         \A i \in RunMail(mail') : mail'[i].type = mail[i].type,
         \A c \in Callers : Sleeps(check'[c]) => Sleeps(check[c]) /\ check'[c].types = check[c].types,
         \A f \in Callers : check[f].pc = "forwarding" =>
           check'[f].pc = "forwarding" /\ check[f].moved \subseteq check'[f].moved
  PROVE  NoSleepingConsumer'
<1>1. \A type : Promised(check, type) => Promised(check', type)
  BY DEF Promised
<1>2. \A c \in Callers : Sleeps(check'[c]) => Undisturbed(c)
  BY <1>1 DEF Undisturbed, Wanted
<1> QED
  BY <1>2, SleepersKept

LEMMA RoutingKept ==
  ASSUME NothingToRoute, run' = run,
         \A i \in DOMAIN mail' : mail'[i].box = run.pane /\ ~mail'[i].read =>
           i \in DOMAIN mail /\ mail[i].box = run.pane /\ ~mail[i].read,
         \A c \in Callers : check'[c].pc = "routing" /\ check'[c].box = "run" =>
           check[c].pc = "routing" /\ check[c].box = "run"
  PROVE  NothingToRoute'
BY DEF NothingToRoute, Unread

\* Only the calls change.
LEMMA CallsOnly ==
  ASSUME NothingToRoute, NoSleepingConsumer, UNCHANGED <<mail, run>>,
         \A c \in Callers : Sleeps(check'[c]) => Sleeps(check[c]) /\ check'[c].types = check[c].types,
         \A f \in Callers : check[f].pc = "forwarding" =>
           check'[f].pc = "forwarding" /\ check[f].moved \subseteq check'[f].moved,
         \A c \in Callers : check'[c].pc = "routing" /\ check'[c].box = "run" =>
           check[c].pc = "routing" /\ check[c].box = "run"
  PROVE  NothingToRoute' /\ NoSleepingConsumer'
BY SleepOn, RoutingKept

(***************************************************************************)
(* Steps                                                                   *)
(***************************************************************************)
LEMMA NotifiedSleepers ==
  ASSUME NEW calls \in [Callers -> CallType], NEW box, NEW types
  PROVE  LET new == Notified(calls, box, types)
         IN \A c \in Callers :
              /\ Sleeps(new[c]) => /\ new[c] = calls[c]
                                   /\ box = "run" => \A t \in types : ~Matches(t, calls[c].types)
              /\ new[c].pc = "routing" \/ calls[c].pc = "forwarding" => new[c] = calls[c]
<1>1. \A k \in CallType : [k EXCEPT !.pc = "woken", !.result = "notified"].pc = "woken"
  BY DEF CallType
<1> QED
  BY <1>1 DEF Notified, Sleeps

LEMMA BoundPane ==
  ASSUME IInv, run.pane # NoPane
  PROVE  run.pane \in Coordinators /\ run.pane \in Panes /\ run.pane \notin {"run", "dispatch"}
BY MailboxConstants DEF IInv, Shapes, Panes

\* Without a bound pane there is no direct mail to keep away.
LEMMA RoutingKeptForPane ==
  ASSUME IInv, NothingToRoute, run' = run,
         run.pane # NoPane =>
           \A i \in DOMAIN mail' : mail'[i].box = run.pane /\ ~mail'[i].read =>
             i \in DOMAIN mail /\ mail[i].box = run.pane /\ ~mail[i].read,
         \A c \in Callers : check'[c].pc = "routing" /\ check'[c].box = "run" =>
           check[c].pc = "routing" /\ check[c].box = "run"
  PROVE  NothingToRoute'
BY DEF NothingToRoute, Unread

\* Mail that comes wakes who waits for it; one that is read already concerns
\* nobody, nor does the mail marked on its account.
LEMMA ComingWakes ==
  ASSUME WInv, NEW S, NEW box \in Boxes, box # run.pane \/ run.pane = NoPane, NEW t \in Types,
         NEW read \in BOOLEAN, mail' = Append(Marked(mail, S), NewMail(box, t, read)), run' = run,
         check' = Notified(check, box, {t}) \/ (read /\ check' = check)
  PROVE  NothingToRoute' /\ NoSleepingConsumer'
<1> DEFINE m == NewMail(box, t, read)
<1>1. m \in Message /\ m.box = box /\ m.type = t /\ m.read = read
  BY DEF NewMail, Message
<1>2. mail' = Append(Marked(mail, S), m)
  OBVIOUS
<1> HIDE DEF m
<1>3. /\ DOMAIN mail' = DOMAIN mail \cup {Len(mail) + 1}
      /\ mail'[Len(mail) + 1] = m
      /\ \A i \in DOMAIN mail :
           /\ mail'[i].box = mail[i].box /\ mail'[i].type = mail[i].type
           /\ mail'[i].read = (i \in S \/ mail[i].read)
  BY <1>1, <1>2, MarkedThenAppended DEF WInv, IInv, Shapes
<1>4. \A c \in Callers :
        /\ Sleeps(check'[c]) => /\ check'[c] = check[c]
                                /\ box = "run" /\ ~read => ~Matches(t, check[c].types)
        /\ check'[c].pc = "routing" \/ check[c].pc = "forwarding" => check'[c] = check[c]
  <2>1. check \in [Callers -> CallType]
    BY DEF WInv, IInv, Shapes
  <2>2. CASE check' = Notified(check, box, {t})
    <3>1. \A c \in Callers :
            /\ Sleeps(check'[c]) => /\ check'[c] = check[c]
                                    /\ box = "run" => \A u \in {t} : ~Matches(u, check[c].types)
            /\ check'[c].pc = "routing" \/ check[c].pc = "forwarding" => check'[c] = check[c]
      BY <2>1, <2>2, NotifiedSleepers
    <3> QED
      BY <3>1
  <2> QED
    BY <2>2
<1>5. \A c \in Callers : Sleeps(check'[c]) => Undisturbed(c)
  <2> SUFFICES ASSUME NEW c \in Callers, Sleeps(check'[c]) PROVE Undisturbed(c)
    OBVIOUS
  <2>1. \A i \in Wanted(mail', check[c].types) :
          i \in Wanted(mail, check[c].types) /\ mail'[i].type = mail[i].type
    <3>1. \A i \in DOMAIN mail : ~mail'[i].read => ~mail[i].read
      BY <1>3
    <3>2. \A i \in Wanted(mail', check[c].types) : i \in DOMAIN mail
      BY <1>1, <1>3, <1>4 DEF Wanted, RunMail
    <3> QED
      BY <1>3, <3>1, <3>2 DEF Wanted, RunMail
  <2>2. \A type : Promised(check, type) => Promised(check', type)
    BY <1>4 DEF Promised
  <2> QED
    BY <1>4, <2>1, <2>2 DEF Undisturbed
<1>6. NoSleepingConsumer'
  BY <1>5, SleepersKept DEF WInv
<1>7. NothingToRoute'
  <2>1. run.pane # NoPane =>
           \A i \in DOMAIN mail' : mail'[i].box = run.pane /\ ~mail'[i].read =>
             i \in DOMAIN mail /\ mail[i].box = run.pane /\ ~mail[i].read
    BY <1>1, <1>3
  <2> QED
    BY <1>4, <2>1, RoutingKeptForPane DEF WInv
<1> QED
  BY <1>6, <1>7

LEMMA SendWakes ==
  ASSUME WInv, NEW t \in Types,
         SendToRun(t) \/ SendToDispatch(t) \/ \E p \in Panes : SendToPane(p, t)
  PROVE  NothingToRoute' /\ NoSleepingConsumer'
<1>1. PICK box \in ReplyBoxes : Send(box, t)
  BY DEF SendToRun, SendToDispatch, SendToPane, ReplyBoxes
<1>2. box \in Boxes /\ (box # run.pane \/ run.pane = NoPane)
  BY ReplyMailbox DEF WInv
<1>3. Marked(mail, {}) = mail
  BY SeqDef DEF Marked, WInv, IInv, Shapes
<1>4. CASE Insert(box, t)
  BY <1>2, <1>3, <1>4, ComingWakes DEF Insert
<1>5. CASE InsertObsolete(box, t)
  BY <1>2, <1>3, <1>5, ComingWakes DEF InsertObsolete
<1>6. CASE InsertReport(box, t)
  BY <1>2, <1>6, ComingWakes DEF InsertReport
<1> QED
  BY <1>1, <1>4, <1>5, <1>6 DEF Send

\* A binding leaves nobody asleep, and takes the direct mail of the pane along.
LEMMA BindWakes ==
  ASSUME Coordinators \cap Workers = {}, WInv, NEW p \in Coordinators, RunUse(p) \/ Leave(p)
  PROVE  NothingToRoute' /\ NoSleepingConsumer'
<1>1. \A c \in Callers :
        /\ ~Sleeps(check'[c])
        /\ check'[c].pc = "routing" => check'[c] = check[c]
  <2>1. \A k \in CallType : [k EXCEPT !.pc = "woken", !.result = "over"].pc = "woken"
    BY DEF CallType
  <2>2. check' = Cancelled /\ check \in [Callers -> CallType]
    BY DEF RunUse, Leave, WInv, IInv, Shapes
  <2> QED
    BY <2>1, <2>2 DEF Cancelled, Sleeps
<1>2. NoSleepingConsumer'
  BY <1>1, SleepersKept DEF WInv
<1>3. \A c \in Callers : check'[c].pc = "routing" => check'[c].box # "run"
  BY <1>1 DEF WInv, NothingToRoute
<1>4. CASE Leave(p)
  <2>1. run'.pane = NoPane
    BY <1>4 DEF Leave
  <2> QED
    BY <1>2, <1>3, <2>1 DEF NothingToRoute
<1>5. CASE RunUse(p)
  <2>1. run'.pane = p
    BY <1>5 DEF RunUse
  <2>2. DirectMail(p) = Unread(p)
    <3>1. dispatch.pane \in Workers \cup {NoPane} /\ p \notin Workers /\ p # NoPane
      BY MailboxConstants DEF WInv, IInv, Shapes, Panes
    <3> QED
      BY <3>1 DEF DirectMail, Working
  <2>3. PICK S : mail' = Moved(S, "run") /\ Unread(p) \subseteq S
    BY <1>5, <2>2 DEF RunUse
  <2>4. /\ DOMAIN mail' = DOMAIN mail
        /\ \A i \in DOMAIN mail : /\ mail'[i].box = IF i \in S THEN "run" ELSE mail[i].box
                                  /\ mail'[i].read = mail[i].read
    BY <2>3, MovedMail DEF WInv, IInv, Shapes, Boxes
  <2>5. p # "run"
    BY MailboxConstants DEF Panes
  <2>6. \A i \in DOMAIN mail' : ~(mail'[i].box = p /\ ~mail'[i].read)
    BY <2>3, <2>4, <2>5 DEF Unread
  <2> QED
    BY <1>2, <1>3, <2>1, <2>6 DEF NothingToRoute, Unread
<1> QED
  BY <1>4, <1>5

LEMMA BeginWakes ==
  ASSUME WInv, NEW c \in Callers, NEW p \in Panes, NEW m \in Modes, NEW fs \in Filters,
         \/ \E ack \in answered[p] \cup {0} : BeginRun(c, p, m[1], m[2], fs, ack)
         \/ BeginDispatch(c, p, m[1], m[2], fs)
  PROVE  NothingToRoute' /\ NoSleepingConsumer'
<1>1. PICK ack \in answered[p] \cup {0}, box \in {"run", "dispatch"} :
        /\ Begin(c, p, Call(p, box, m[1], m[2], fs, ack))
        /\ box = "run" => run.pane = p
  BY DEF BeginRun, BeginDispatch
<1> DEFINE k == Call(p, box, m[1], m[2], fs, ack)
<1>2. /\ k.box = box /\ k.pc \in {"routing", "acting"}
      /\ k.pc = "routing" => Unread(p) # {}
  BY DEF Call, Idle
<1>3. k.pc = "routing" => k.box # "run"
  <2>1. p # NoPane
    BY MailboxConstants
  <2> QED
    BY <1>1, <1>2, <2>1 DEF WInv, NothingToRoute
<1> HIDE DEF k
<1>4. /\ check' = [check EXCEPT ![c] = k] /\ check[c] = Idle
      /\ UNCHANGED <<mail, run>>
  BY <1>1 DEF Begin, k
<1>5. check'[c] = k /\ \A o \in Callers \ {c} : check'[o] = check[o]
  BY <1>4 DEF WInv, IInv, Shapes
<1>6. check[c].pc = "idle"
  BY <1>4 DEF Idle
<1>7. /\ \A o \in Callers : Sleeps(check'[o]) => Sleeps(check[o]) /\ check'[o].types = check[o].types
      /\ \A f \in Callers : check[f].pc = "forwarding" =>
           check'[f].pc = "forwarding" /\ check[f].moved \subseteq check'[f].moved
      /\ \A o \in Callers : check'[o].pc = "routing" /\ check'[o].box = "run" =>
           check[o].pc = "routing" /\ check[o].box = "run"
  BY <1>2, <1>3, <1>5, <1>6 DEF Sleeps
<1> QED
  BY <1>4, <1>7, CallsOnly DEF WInv

\* Only one call changes: it sleeps no more, is no forwarding and routes
\* nothing for the Run.
LEMMA OneCallWakes ==
  ASSUME WInv, NEW c \in Callers, NEW k, ~Sleeps(k), ~(k.pc = "routing" /\ k.box = "run"),
         check' = [check EXCEPT ![c] = k], check[c].pc # "forwarding"
  PROVE  /\ \A o \in Callers : Sleeps(check'[o]) => Sleeps(check[o]) /\ check'[o].types = check[o].types
         /\ \A f \in Callers : check[f].pc = "forwarding" =>
              check'[f].pc = "forwarding" /\ check[f].moved \subseteq check'[f].moved
         /\ \A o \in Callers : check'[o].pc = "routing" /\ check'[o].box = "run" =>
              check[o].pc = "routing" /\ check[o].box = "run"
<1>1. check'[c] = k /\ \A o \in Callers \ {c} : check'[o] = check[o]
  BY DEF WInv, IInv, Shapes
<1> QED
  BY <1>1 DEF Sleeps

\* Mail of the Run may be read, nothing else: the sleepers sleep on.
LEMMA RunMailShrinks ==
  ASSUME WInv, run' = run, DOMAIN mail' = DOMAIN mail,
         \A i \in DOMAIN mail :
           /\ mail'[i].type = mail[i].type /\ (mail[i].read => mail'[i].read)
           /\ mail'[i].box \in {mail[i].box, "dispatch"},
         \A o \in Callers : Sleeps(check'[o]) => Sleeps(check[o]) /\ check'[o].types = check[o].types,
         \A f \in Callers : check[f].pc = "forwarding" =>
           check'[f].pc = "forwarding" /\ check[f].moved \subseteq check'[f].moved,
         \A o \in Callers : check'[o].pc = "routing" /\ check'[o].box = "run" =>
           check[o].pc = "routing" /\ check[o].box = "run"
  PROVE  NothingToRoute' /\ NoSleepingConsumer'
<1>1. RunMail(mail') \subseteq RunMail(mail) /\ \A i \in RunMail(mail') : mail'[i].type = mail[i].type
  BY DEF RunMail
<1>2. NoSleepingConsumer'
  BY <1>1, SleepOn DEF WInv
<1>3. run.pane # NoPane =>
        \A i \in DOMAIN mail' : mail'[i].box = run.pane /\ ~mail'[i].read =>
          i \in DOMAIN mail /\ mail[i].box = run.pane /\ ~mail[i].read
  BY BoundPane DEF WInv
<1>4. NothingToRoute'
  BY <1>3, RoutingKeptForPane DEF WInv
<1> QED
  BY <1>2, <1>4

LEMMA MarkedOnly ==
  ASSUME WInv, NEW S, mail' = Marked(mail, S)
  PROVE  /\ DOMAIN mail' = DOMAIN mail
         /\ \A i \in DOMAIN mail :
              /\ mail'[i].type = mail[i].type /\ (mail[i].read => mail'[i].read)
              /\ mail'[i].box \in {mail[i].box, "dispatch"}
<1>1. /\ DOMAIN mail' = DOMAIN mail
      /\ \A i \in DOMAIN mail :
           /\ mail'[i].box = mail[i].box /\ mail'[i].type = mail[i].type
           /\ mail'[i].read = (i \in S \/ mail[i].read)
  BY MarkedMail DEF WInv, IInv, Shapes
<1>2. \A i \in DOMAIN mail : mail[i].read => mail'[i].read
  BY <1>1
<1> QED
  BY <1>1, <1>2

LEMMA ReplyWakes ==
  ASSUME WInv, NEW i \in DOMAIN mail, Reply(i) PROVE NothingToRoute' /\ NoSleepingConsumer'
<1>1. run' = run
  BY DEF Reply
<1>2. CASE mail' = Marked(mail, {i}) /\ UNCHANGED check
  BY <1>1, <1>2, MarkedOnly, RunMailShrinks
<1>3. ASSUME NEW box \in ReplyBoxes, NEW t \in Types,
             mail' = Append(Marked(mail, {i}), NewMail(box, t, FALSE)),
             check' = Notified(check, box, {t})
      PROVE  NothingToRoute' /\ NoSleepingConsumer'
  <2>1. box \in Boxes /\ (box # run.pane \/ run.pane = NoPane)
    BY ReplyMailbox DEF WInv
  <2> QED
    BY <1>1, <1>3, <2>1, ComingWakes
<1> QED
  BY <1>2, <1>3 DEF Reply, ReplyBoxes

LEMMA RoutePageWakes ==
  ASSUME WInv, NEW c \in Callers, RoutePage(c) PROVE NothingToRoute' /\ NoSleepingConsumer'
<1> DEFINE k  == check[c]
           on == [k EXCEPT !.pc = "acting", !.through = 0]
<1>1. k.box = "dispatch" /\ k.pc = "routing" /\ k \in CallType /\ run' = run
  BY CallOf DEF RoutePage, CallType, WInv, NothingToRoute
<1>2. PICK S : mail' = Moved(S, "dispatch")
  BY <1>1 DEF RoutePage
<1>3. /\ DOMAIN mail' = DOMAIN mail
      /\ \A i \in DOMAIN mail :
           /\ mail'[i].type = mail[i].type /\ (mail[i].read => mail'[i].read)
           /\ mail'[i].box \in {mail[i].box, "dispatch"}
  BY <1>2, MovedMail DEF WInv, IInv, Shapes, Boxes
<1>4. on.pc = "acting" /\ on.box = "dispatch"
  BY <1>1 DEF CallType
<1>5. check' = [check EXCEPT ![c] = on] \/ check' = [check EXCEPT ![c] = k]
  BY CallOf DEF RoutePage, WInv
<1> HIDE DEF on
<1>6. /\ \A o \in Callers : Sleeps(check'[o]) => Sleeps(check[o]) /\ check'[o].types = check[o].types
      /\ \A f \in Callers : check[f].pc = "forwarding" =>
           check'[f].pc = "forwarding" /\ check[f].moved \subseteq check'[f].moved
      /\ \A o \in Callers : check'[o].pc = "routing" /\ check'[o].box = "run" =>
           check[o].pc = "routing" /\ check[o].box = "run"
  BY <1>1, <1>4, <1>5, OneCallWakes DEF Sleeps
<1> QED
  BY <1>1, <1>3, <1>6, RunMailShrinks

LEMMA DispatchCheckWakes ==
  ASSUME WInv, NEW c \in Callers, ActOnDispatch(c) \/ ResumeOnDispatch(c)
  PROVE  NothingToRoute' /\ NoSleepingConsumer'
<1> DEFINE k == check[c]
           forwarding == [Idle EXCEPT !.pc = "forwarding", !.pane = check[c].pane,
                                      !.through = Largest(Unread("dispatch"))]
           waiting == [k EXCEPT !.pc = "waiting"]
<1>1. /\ k.box = "dispatch" /\ k.pc \in {"acting", "woken"} /\ k \in CallType /\ run' = run
      /\ check \in [Callers -> CallType]
  BY CallOf DEF ActOnDispatch, ResumeOnDispatch, WInv
<1>2. \A j \in {Idle, forwarding, waiting} : ~Sleeps(j) /\ j.pc # "routing"
  <2>1. Idle.pc = "idle" /\ forwarding.pc = "forwarding"
    BY DEF Idle
  <2>2. waiting.pc = "waiting" /\ waiting.box = "dispatch"
    BY <1>1 DEF CallType
  <2> QED
    BY <2>1, <2>2 DEF Sleeps
<1>3. \E j \in {Idle, forwarding, waiting} : check' = [check EXCEPT ![c] = j]
  BY <1>1 DEF ActOnDispatch, ResumeOnDispatch, StartForwarding, Taken, Ended
<1> HIDE DEF forwarding, waiting
<1>4. /\ \A o \in Callers : Sleeps(check'[o]) => Sleeps(check[o]) /\ check'[o].types = check[o].types
      /\ \A f \in Callers : check[f].pc = "forwarding" =>
           check'[f].pc = "forwarding" /\ check[f].moved \subseteq check'[f].moved
      /\ \A o \in Callers : check'[o].pc = "routing" /\ check'[o].box = "run" =>
           check[o].pc = "routing" /\ check[o].box = "run"
  <2>1. PICK j \in {Idle, forwarding, waiting} : check' = [check EXCEPT ![c] = j]
    BY <1>3
  <2>2. ~Sleeps(j) /\ j.pc # "routing" /\ check[c].pc # "forwarding"
    BY <1>1, <1>2
  <2> QED
    BY <2>1, <2>2, OneCallWakes
<1>5. CASE mail' = mail
  BY <1>1, <1>4, <1>5, CallsOnly DEF WInv
<1>6. CASE mail' = Marked(mail, UnreadIn(k.box, k.types))
  BY <1>1, <1>4, <1>6, MarkedOnly, RunMailShrinks
<1> QED
  BY <1>5, <1>6 DEF ActOnDispatch, ResumeOnDispatch, StartForwarding, Taken

\* Mail of announced or promised types is forwarded to the Run.
Forwards(moved) ==
  /\ run' = run /\ DOMAIN mail' = DOMAIN mail
  /\ \A i \in DOMAIN mail :
       /\ mail'[i].type = mail[i].type /\ mail'[i].read = mail[i].read
       /\ mail'[i].box = mail[i].box \/ (mail'[i].box = "run" /\ mail[i].type \in moved)

LEMMA ForwardsRouting ==
  ASSUME WInv, NEW moved, Forwards(moved),
         \A o \in Callers : check'[o].pc = "routing" => check'[o] = check[o]
  PROVE  NothingToRoute'
<1>1. run.pane # NoPane =>
        \A i \in DOMAIN mail' : mail'[i].box = run.pane /\ ~mail'[i].read =>
          i \in DOMAIN mail /\ mail[i].box = run.pane /\ ~mail[i].read
  BY BoundPane DEF WInv, Forwards
<1> QED
  BY <1>1, RoutingKeptForPane DEF WInv, Forwards

\* A forwarding announces the types it has promised: nobody who wants one
\* sleeps on.
LEMMA AnnouncedWakes ==
  ASSUME WInv, NEW c \in Callers, NEW j \in CallType, ~Sleeps(j), j.pc # "routing",
         NEW moved, check[c].moved \subseteq moved, Forwards(moved),
         check' = Notified([check EXCEPT ![c] = j], "run", moved)
  PROVE  NothingToRoute' /\ NoSleepingConsumer'
<1> DEFINE edited == [check EXCEPT ![c] = j]
<1>1. /\ edited \in [Callers -> CallType] /\ edited[c] = j
      /\ \A o \in Callers \ {c} : edited[o] = check[o]
  BY OneCall DEF WInv, IInv, Shapes
<1>2. check' = Notified(edited, "run", moved)
  OBVIOUS
<1> HIDE DEF edited
<1>3. \A o \in Callers :
        /\ Sleeps(check'[o]) => check'[o] = edited[o] /\ \A t \in moved : ~Matches(t, edited[o].types)
        /\ check'[o].pc = "routing" \/ edited[o].pc = "forwarding" => check'[o] = edited[o]
  BY <1>1, <1>2, NotifiedSleepers
<1>4. ASSUME NEW o \in Callers, Sleeps(check'[o]) PROVE Undisturbed(o)
  <2>1. /\ o # c /\ check'[o] = check[o] /\ \A t \in moved : ~Matches(t, check[o].types)
    BY <1>1, <1>3, <1>4
  <2>2. \A i \in Wanted(mail', check[o].types) :
          i \in Wanted(mail, check[o].types) /\ mail'[i].type = mail[i].type
    BY <2>1 DEF Forwards, Wanted, RunMail
  <2>3. ASSUME NEW type, Promised(check, type), Matches(type, check[o].types)
        PROVE  Promised(check', type)
    <3>1. PICK f \in Callers : check[f].pc = "forwarding" /\ type \in check[f].moved
      BY <2>3 DEF Promised
    <3>2. f # c
      BY <2>1, <2>3, <3>1
    <3>3. check'[f] = check[f]
      BY <1>1, <1>3, <3>1, <3>2
    <3> QED
      BY <3>1, <3>3 DEF Promised
  <2> QED
    BY <1>4, <2>1, <2>2, <2>3 DEF Undisturbed
<1>5. NoSleepingConsumer'
  BY <1>4, SleepersKept DEF WInv
<1>6. NothingToRoute'
  BY <1>1, <1>3, ForwardsRouting
<1> QED
  BY <1>5, <1>6

LEMMA ForwardPageWakes ==
  ASSUME WInv, NEW c \in Callers, ForwardPage(c) PROVE NothingToRoute' /\ NoSleepingConsumer'
<1> DEFINE k     == check[c]
           left  == {i \in Unread("dispatch") : i <= k.through}
           page  == FirstOf(left, Batch)
           moved == ForwardedTypes(k.moved, page)
           on    == [k EXCEPT !.moved = moved]
<1>1. /\ k \in CallType /\ k.pc = "forwarding" /\ check \in [Callers -> CallType]
      /\ mail' = Moved(page, "run") /\ run' = run
      /\ \/ check' = Notified([check EXCEPT ![c] = Idle], "run", moved)
         \/ check' = [check EXCEPT ![c] = on]
  BY CallOf DEF ForwardPage, Ended, WInv
<1>2. k.moved \subseteq moved /\ \A i \in page : mail[i].type \in moved
  BY DEF ForwardedTypes
<1>3. on.pc = "forwarding" /\ on.moved = moved
  BY <1>1 DEF CallType
<1> HIDE DEF moved, on, page
<1>4. /\ DOMAIN mail' = DOMAIN mail
      /\ \A i \in DOMAIN mail : /\ mail'[i].box = IF i \in page THEN "run" ELSE mail[i].box
                                /\ mail'[i].type = mail[i].type /\ mail'[i].read = mail[i].read
  BY <1>1, MovedMail DEF WInv, IInv, Shapes, Boxes
<1>5. Forwards(moved)
  BY <1>1, <1>2, <1>4 DEF Forwards
<1>6. CASE check' = Notified([check EXCEPT ![c] = Idle], "run", moved)
  <2>1. Idle \in CallType /\ ~Sleeps(Idle) /\ Idle.pc # "routing"
    BY IdleCall DEF Idle, Sleeps
  <2> QED
    BY <1>2, <1>5, <1>6, <2>1, AnnouncedWakes
<1>7. CASE check' = [check EXCEPT ![c] = on]
  <2>1. check'[c] = on /\ \A o \in Callers \ {c} : check'[o] = check[o]
    BY <1>1, <1>7
  <2>2. ASSUME NEW o \in Callers, Sleeps(check'[o]) PROVE Undisturbed(o)
    <3>1. check'[o] = check[o]
      BY <1>3, <2>1, <2>2 DEF Sleeps
    <3>2. \A type \in moved : Promised(check', type)
      BY <1>3, <2>1 DEF Promised
    <3>3. \A i \in Wanted(mail', check[o].types) :
            \/ i \in Wanted(mail, check[o].types) /\ mail'[i].type = mail[i].type
            \/ Promised(check', mail'[i].type)
      BY <1>5, <3>2 DEF Forwards, Wanted, RunMail
    <3>4. \A type : Promised(check, type) => Promised(check', type)
      BY <1>2, <1>3, <2>1 DEF Promised
    <3> QED
      BY <2>2, <3>1, <3>3, <3>4 DEF Undisturbed
  <2>3. NoSleepingConsumer'
    BY <2>2, SleepersKept DEF WInv
  <2>4. \A o \in Callers : check'[o].pc = "routing" => check'[o] = check[o]
    BY <1>3, <2>1
  <2> QED
    BY <1>5, <2>3, <2>4, ForwardsRouting
<1> QED
  BY <1>1, <1>6, <1>7

LEMMA AbortWakes ==
  ASSUME WInv, NEW c \in Callers, TimeOut(c) \/ Abort(c)
  PROVE  NothingToRoute' /\ NoSleepingConsumer'
<1> DEFINE k    == check[c]
           over == [k EXCEPT !.pc = "woken", !.result = "over"]
           bare == [k EXCEPT !.moved = {}]
<1>1. k \in CallType /\ UNCHANGED <<mail, run>>
  BY CallOf DEF TimeOut, Abort, WInv
<1>2. \/ k.pc \in {"routing", "waiting"} /\ \E j \in {Idle, over} : check' = [check EXCEPT ![c] = j]
      \/ k.pc = "forwarding" /\ check' = Notified([check EXCEPT ![c] = bare], "run", k.moved)
  BY DEF TimeOut, Abort, Ended
<1>3. CASE k.pc \in {"routing", "waiting"} /\ \E j \in {Idle, over} : check' = [check EXCEPT ![c] = j]
  <2>1. PICK j \in {Idle, over} : check' = [check EXCEPT ![c] = j]
    BY <1>3
  <2>2. ~Sleeps(j) /\ j.pc # "routing" /\ k.pc # "forwarding"
    <3>1. Idle.pc = "idle" /\ over.pc = "woken"
      BY <1>1 DEF Idle, CallType
    <3> QED
      BY <1>3, <3>1 DEF Sleeps
  <2> HIDE DEF over
  <2>3. /\ \A o \in Callers : Sleeps(check'[o]) => Sleeps(check[o]) /\ check'[o].types = check[o].types
        /\ \A f \in Callers : check[f].pc = "forwarding" =>
             check'[f].pc = "forwarding" /\ check[f].moved \subseteq check'[f].moved
        /\ \A o \in Callers : check'[o].pc = "routing" /\ check'[o].box = "run" =>
             check[o].pc = "routing" /\ check[o].box = "run"
    BY <2>1, <2>2, OneCallWakes
  <2> QED
    BY <1>1, <2>3, CallsOnly DEF WInv
<1>4. CASE k.pc = "forwarding" /\ check' = Notified([check EXCEPT ![c] = bare], "run", k.moved)
  <2>1. bare \in CallType /\ bare.pc = "forwarding"
    BY <1>1, <1>4 DEF CallType
  <2> HIDE DEF bare
  <2>2. Forwards(k.moved)
    BY <1>1 DEF Forwards
  <2>3. ~Sleeps(bare) /\ bare.pc # "routing"
    BY <2>1 DEF Sleeps
  <2> QED
    BY <1>4, <2>1, <2>2, <2>3, AnnouncedWakes
<1> QED
  BY <1>2, <1>3, <1>4

LEMMA RestartWakes ==
  ASSUME WInv, Restart PROVE NothingToRoute' /\ NoSleepingConsumer'
<1>1. \A c \in Callers : ~Sleeps(check'[c]) /\ check'[c].pc # "routing"
  BY DEF Restart, Idle, Sleeps
<1>2. NoSleepingConsumer'
  BY <1>1, SleepersKept DEF WInv
<1>3. UNCHANGED <<mail, run>>
  BY DEF Restart
<1>4. NothingToRoute'
  BY <1>1, <1>3 DEF WInv, NothingToRoute, Unread
<1> QED
  BY <1>2, <1>4

\* A check falls asleep when there is nothing it wants.
LEMMA FallsAsleep ==
  ASSUME WInv, NEW c \in Callers, check[c].pc # "forwarding", NEW j, j.pc = "waiting",
         Wanted(mail', j.types) = {}, check' = [check EXCEPT ![c] = j], run' = run,
         DOMAIN mail' = DOMAIN mail,
         \A i \in DOMAIN mail :
           /\ mail'[i].type = mail[i].type /\ (mail[i].read => mail'[i].read)
           /\ mail'[i].box \in {mail[i].box, "dispatch"}
  PROVE  NothingToRoute' /\ NoSleepingConsumer'
<1>1. check'[c] = j /\ \A o \in Callers \ {c} : check'[o] = check[o]
  BY DEF WInv, IInv, Shapes
<1>2. RunMail(mail') \subseteq RunMail(mail) /\ \A i \in RunMail(mail') : mail'[i].type = mail[i].type
  BY DEF RunMail
<1>3. \A type : Promised(check, type) => Promised(check', type)
  BY <1>1 DEF Promised
<1>4. \A o \in Callers \ {c} : Sleeps(check'[o]) => Undisturbed(o)
  BY <1>1, <1>2, <1>3 DEF Undisturbed, Wanted
<1>5. NoSleepingConsumer'
  BY <1>1, <1>4, SleepersKept DEF WInv
<1>6. run.pane # NoPane =>
        \A i \in DOMAIN mail' : mail'[i].box = run.pane /\ ~mail'[i].read =>
          i \in DOMAIN mail /\ mail[i].box = run.pane /\ ~mail[i].read
  BY BoundPane DEF WInv
<1>7. NothingToRoute'
  BY <1>1, <1>6, RoutingKeptForPane DEF WInv
<1> QED
  BY <1>5, <1>7

OnlyRead == mail' = mail \/ \E S : mail' = Marked(mail, S)

\* A call that ends, with the Run's mail at most read
LEMMA EndsAwake ==
  ASSUME WInv, NEW c \in Callers, check[c].pc # "forwarding",
         NEW j \in CallType, j.pc \in {"idle", "woken"}, check' = [check EXCEPT ![c] = j], run' = run,
         OnlyRead
  PROVE  NothingToRoute' /\ NoSleepingConsumer'
<1>1. /\ \A o \in Callers : Sleeps(check'[o]) => Sleeps(check[o]) /\ check'[o].types = check[o].types
      /\ \A f \in Callers : check[f].pc = "forwarding" =>
           check'[f].pc = "forwarding" /\ check[f].moved \subseteq check'[f].moved
      /\ \A o \in Callers : check'[o].pc = "routing" /\ check'[o].box = "run" =>
           check[o].pc = "routing" /\ check[o].box = "run"
  <2>1. ~Sleeps(j) /\ j.pc # "routing"
    BY DEF Sleeps
  <2> QED
    BY <2>1, OneCallWakes
<1>2. CASE mail' = mail
  BY <1>1, <1>2, CallsOnly DEF WInv
<1>3. ASSUME NEW S, mail' = Marked(mail, S) PROVE NothingToRoute' /\ NoSleepingConsumer'
  BY <1>1, <1>3, MarkedOnly, RunMailShrinks
<1> QED
  BY <1>2, <1>3 DEF OnlyRead

\* A mailbox that gives no batch holds nothing the caller names.
LEMMA NoBatchNothingWanted ==
  ASSUME NEW msgs, NEW dels \in Seq(Batches), NEW k, NEW wake,
         Outstanding(WithBatch(msgs, dels, k, wake)) = {}
  PROVE  Wanted(msgs, wake) = {}
<1> DEFINE batch == [generation |-> k.generation, status |-> "outstanding",
                     messages |-> FirstOf(RunMail(msgs), Batch)]
           new   == Append(dels, batch)
<1>1. batch.status = "outstanding"
  OBVIOUS
<1> HIDE DEF batch
<1>2. DOMAIN new = 1 .. Len(dels) + 1 /\ new[Len(dels) + 1] = batch /\ Len(dels) \in Nat
  OBVIOUS
<1>3. Len(dels) + 1 \in Outstanding(new)
  BY <1>1, <1>2 DEF Outstanding
<1>4. \/ WithBatch(msgs, dels, k, wake) = new
      \/ WithBatch(msgs, dels, k, wake) = dels
         /\ (Outstanding(dels) # {} \/ ~\E i \in RunMail(msgs) : Matches(msgs[i].type, wake))
  BY DEF WithBatch, RunMail, batch
<1> QED
  BY <1>3, <1>4 DEF Wanted

LEMMA ActOnRunWakes ==
  ASSUME WInv, NEW c \in Callers, ActOnRun(c) PROVE NothingToRoute' /\ NoSleepingConsumer'
<1> DEFINE k    == check[c]
           msgs == Marked(mail, ReadBy(k.ack))
           dels == WithBatch(msgs, Acked(k.ack), k, IF k.wait THEN k.types ELSE {})
           peeked == {i \in DOMAIN msgs : msgs[i].box = "run" /\ ~msgs[i].read
                                          /\ Matches(msgs[i].type, k.types)}
           on(pc) == [k EXCEPT !.pc = pc, !.result = "over", !.ack = 0]
<1>1. k \in CallType /\ k.pc = "acting" /\ run' = run
  BY CallOf DEF ActOnRun, WInv
<1>2. OnlyRead
  BY DEF ActOnRun, OnlyRead
<1>3. CASE check' = Ended(c)
  <2>1. check' = [check EXCEPT ![c] = Idle] /\ Idle \in CallType /\ Idle.pc \in {"idle", "woken"}
    BY <1>3, IdleCall DEF Ended, Idle
  <2>2. check[c].pc # "forwarding"
    BY <1>1
  <2> QED
    BY <1>1, <1>2, <2>1, <2>2, EndsAwake
<1>4. CASE /\ check' = Awaits(c) /\ mail' = msgs /\ AckFits(k) /\ k.wait
           /\ (IF k.mode = "read" THEN Outstanding(dels) ELSE peeked) = {}
  <2>1. Acked(k.ack) \in Seq(Batches)
    BY <1>4, AcknowledgedSound DEF WInv, Sound
  <2>2. Wanted(mail', k.types) = {}
    <3>1. CASE k.mode = "read"
      BY <1>4, <2>1, <3>1, NoBatchNothingWanted
    <3>2. CASE k.mode # "read"
      BY <1>4, <3>2 DEF Wanted, RunMail
    <3> QED
      BY <3>1, <3>2
  <2>3. PICK pc \in {"waiting", "woken"} : check' = [check EXCEPT ![c] = on(pc)]
    BY <1>4 DEF Awaits
  <2>4. on(pc).pc = pc /\ on(pc).types = k.types /\ on(pc) \in CallType
    BY <1>1 DEF CallType, Steps
  <2> HIDE DEF on, msgs
  <2>5. CASE pc = "woken"
    <3>1. on(pc).pc \in {"idle", "woken"} /\ check[c].pc # "forwarding"
      BY <1>1, <2>4, <2>5
    <3> QED
      BY <1>1, <1>2, <2>3, <2>4, <3>1, EndsAwake
  <2>6. CASE pc = "waiting"
    <3>1. /\ DOMAIN mail' = DOMAIN mail
          /\ \A i \in DOMAIN mail :
               /\ mail'[i].type = mail[i].type /\ (mail[i].read => mail'[i].read)
               /\ mail'[i].box \in {mail[i].box, "dispatch"}
      BY <1>4, MarkedOnly DEF msgs
    <3> QED
      BY <1>1, <2>2, <2>3, <2>4, <2>6, <3>1, FallsAsleep
  <2> QED
    BY <2>5, <2>6
<1> QED
  BY <1>3, <1>4 DEF ActOnRun

LEMMA ResumeOnRunWakes ==
  ASSUME WInv, NEW c \in Callers, ResumeOnRun(c) PROVE NothingToRoute' /\ NoSleepingConsumer'
<1>1. check' = [check EXCEPT ![c] = Idle] /\ Idle \in CallType /\ Idle.pc \in {"idle", "woken"}
      /\ check[c].pc # "forwarding" /\ OnlyRead /\ run' = run
  BY IdleCall DEF ResumeOnRun, Ended, Idle, OnlyRead
<1> QED
  BY <1>1, EndsAwake

(***************************************************************************)
(* Theorem                                                                 *)
(***************************************************************************)
LEMMA InitWakes == Init => WInv
<1> SUFFICES ASSUME Init PROVE NothingToRoute /\ NoSleepingConsumer
  BY InitInvariant DEF WInv
<1>1. mail = <<>> /\ \A c \in Callers : check[c] = Idle
  BY DEF Init
<1> QED
  BY <1>1 DEF NothingToRoute, NoSleepingConsumer, Unread, Idle

Awake == NothingToRoute /\ NoSleepingConsumer

LEMMA StepWakes ==
  ASSUME Coordinators \cap Workers = {}
  PROVE  WInv /\ [Next]_vars => WInv'
<1> SUFFICES ASSUME WInv, [Next]_vars PROVE Awake'
  BY StepInvariant DEF WInv, Awake
<1>1. ASSUME NEW t \in Types, SendToRun(t) \/ SendToDispatch(t) \/ \E p \in Panes : SendToPane(p, t)
      PROVE  Awake'
  BY <1>1, SendWakes DEF Awake
<1>7. ASSUME NEW i \in DOMAIN mail, Reply(i) PROVE Awake'
  BY <1>7, ReplyWakes DEF Awake
<1>2. ASSUME NEW p \in Coordinators, RunUse(p) \/ Leave(p) PROVE Awake'
  BY <1>2, BindWakes DEF Awake
<1>3. CASE Settle \/ \E p \in Workers : Assign(p)
  BY <1>3, CallsOnly DEF Settle, Assign, WInv, Awake
<1>4. ASSUME NEW c \in Callers, Checks(c) PROVE Awake'
  <2>1. ASSUME NEW p \in Panes, NEW m \in Modes, NEW fs \in Filters,
               \/ \E ack \in answered[p] \cup {0} : BeginRun(c, p, m[1], m[2], fs, ack)
               \/ BeginDispatch(c, p, m[1], m[2], fs)
        PROVE  Awake'
    BY <2>1, BeginWakes DEF Awake
  <2>2. CASE RoutePage(c)
    BY <2>2, RoutePageWakes DEF Awake
  <2>3. CASE ActOnRun(c) \/ ResumeOnRun(c)
    BY <2>3, ActOnRunWakes, ResumeOnRunWakes DEF Awake
  <2>4. CASE ActOnDispatch(c) \/ ResumeOnDispatch(c)
    BY <2>4, DispatchCheckWakes DEF Awake
  <2>5. CASE ForwardPage(c)
    BY <2>5, ForwardPageWakes DEF Awake
  <2>6. CASE TimeOut(c) \/ Abort(c)
    BY <2>6, AbortWakes DEF Awake
  <2> QED
    BY <1>4, <2>1, <2>2, <2>3, <2>4, <2>5, <2>6 DEF Checks
<1>5. CASE Restart
  BY <1>5, RestartWakes DEF Awake
<1>6. CASE UNCHANGED vars
  BY <1>6, CallsOnly DEF vars, WInv, Awake
<1> QED
  BY <1>1, <1>2, <1>3, <1>4, <1>5, <1>6, <1>7 DEF Next

\* No consumer sleeps on mail it waits for: as long as no pane both binds the
\* Run and works for it, every message of a wanted type that comes into the
\* Run's mailbox wakes the check waiting for it, or is announced by the
\* forwarding that brought it.
THEOREM ConsumersWake ==
  ASSUME Coordinators \cap Workers = {}
  PROVE  Spec => []NoSleepingConsumer
<1>1. WInv => NoSleepingConsumer
  BY DEF WInv
<1> QED
  BY InitWakes, StepWakes, <1>1, PTL DEF Spec

=============================================================================
