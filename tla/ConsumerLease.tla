---------------------------- MODULE ConsumerLease ----------------------------
(***************************************************************************)
(* What a Run mailbox promises: mail is finished once, and only by the     *)
(* consumer it was handed to.  The current consumer holds at most one      *)
(* batch; a takeover revokes the batch, and its mail is handed out again.  *)
(* Mail that needs no consumer any more is withdrawn and not handed out    *)
(* again: the heartbeats of a dispatch that is over, and what somebody has *)
(* replied to.                                                             *)
(***************************************************************************)
EXTENDS Naturals

VARIABLES generation,   \* of the current consumer
          posted,       \* mail in the mailbox, ever
          beats,        \* the heartbeats of it
          superseded,   \* heartbeats withdrawn
          replied,      \* mail withdrawn by a reply
          out,          \* the batch the consumer holds
          done          \* mail finished

vars == <<generation, posted, beats, superseded, replied, out, done>>

Init ==
  /\ generation = 1
  /\ posted = {} /\ beats = {} /\ superseded = {} /\ replied = {} /\ out = {} /\ done = {}

\* Mail keeps its kind.
Arrive == posted \subseteq posted' /\ beats' \cap posted = beats

\* New mail may make heartbeats obsolete, never other mail.
Post ==
  /\ Arrive
  /\ superseded \subseteq superseded' /\ superseded' \subseteq beats' \ (done \cup replied)
  /\ UNCHANGED <<generation, replied, out, done>>

\* One message is replied to; the reply may be mail of this mailbox.
Reply(i) ==
  /\ Arrive /\ i \notin done \cup superseded
  /\ replied' = replied \cup {i}
  /\ UNCHANGED <<generation, superseded, out, done>>

\* Hand the consumer its next batch, after it has finished the one it held.
\* A check that acknowledges and reads does both.
Serve(finished) ==
  /\ done' = done \cup (finished \ (superseded \cup replied))
  /\ out' \subseteq posted
  /\ IF out = finished THEN out' \cap (done' \cup superseded \cup replied) = {}
                       ELSE out' = out
  /\ UNCHANGED <<generation, posted, beats, superseded, replied>>

\* A takeover brings the direct mail of both coordinators along.
TakeOver ==
  /\ generation' = generation + 1 /\ out' = {}
  /\ Arrive
  /\ UNCHANGED <<superseded, replied, done>>

Next ==
  \/ Post \/ TakeOver
  \/ \E i \in posted : Reply(i)
  \/ \E finished \in {{}, out} : Serve(finished)

Spec == Init /\ [][Next]_vars
==============================================================================
