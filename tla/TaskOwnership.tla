---------------------------- MODULE TaskOwnership ----------------------------
(***************************************************************************)
(* What the orchestration store promises about a task: it passes from one  *)
(* dispatch to the next only through nobody.  A dispatch is granted once,  *)
(* works, and ends once; only the one that works, or one that ended with   *)
(* its prompt unseen while nobody followed it, reports the outcome of its  *)
(* task.  A finished task is opened again by the coordinator alone.        *)
(***************************************************************************)
EXTENDS Naturals

CONSTANTS Task, NoTask, Dispatch       \* dispatches are numbers

VARIABLES phase,   \* of each dispatch
          of,      \* the task it was granted
          done     \* completed tasks

vars == <<phase, of, done>>

Init ==
  /\ phase = [d \in Dispatch |-> "unused"]
  /\ of = [d \in Dispatch |-> NoTask]
  /\ done = {}

Owners(t) == {d \in Dispatch : phase[d] = "working" /\ of[d] = t}

\* A free task goes to a dispatch later than every other.
Grant(t, d) ==
  /\ Owners(t) = {} /\ t \notin done
  /\ \A e \in Dispatch : phase[e] = "unused" <=> e >= d
  /\ phase' = [phase EXCEPT ![d] = "working"]
  /\ of' = [of EXCEPT ![d] = t]
  /\ UNCHANGED done

\* A dispatch gives up, is stopped or is lost; its prompt may be unseen.
End(d, s) ==
  /\ phase[d] = "working"
  /\ phase' = [phase EXCEPT ![d] = s]
  /\ UNCHANGED <<of, done>>

\* The outcome of the task, from the only dispatch that can know it.
Report(d, s) ==
  /\ phase[d] \in {"working", "unseen"}
  /\ Owners(of[d]) \subseteq {d} /\ of[d] \notin done
  /\ phase' = [phase EXCEPT ![d] = s]
  /\ done' = IF s = "completed" THEN done \cup {of[d]} ELSE done
  /\ UNCHANGED of

\* The coordinator decides about the task, and ends its owner with it.
Decide(t, s) ==
  /\ phase' = [d \in Dispatch |-> IF d \in Owners(t) THEN s ELSE phase[d]]
  /\ done' = done \ {t} \/ (s = "completed" /\ done' = done \cup {t})
  /\ UNCHANGED of

Next ==
  \/ \E t \in Task, d \in Dispatch : Grant(t, d)
  \/ \E d \in Dispatch, s \in {"ended", "unseen"} : End(d, s)
  \/ \E d \in Dispatch, s \in {"completed", "ended"} : Report(d, s)
  \/ \E t \in Task, s \in {"completed", "ended"} : Decide(t, s)

Spec == Init /\ [][Next]_vars
==============================================================================
