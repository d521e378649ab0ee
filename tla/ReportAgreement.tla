--------------------------- MODULE ReportAgreement ---------------------------
(***************************************************************************)
(* What a federated dispatch with lifecycle settlement promises: the Run   *)
(* home alone decides about a worker's report, the worker's server repeats *)
(* the decision, and neither revises it.  A stop or an abandonment ends    *)
(* the worker without a report; the two sides may then differ for a while  *)
(* in who has noticed, never in the outcome.                               *)
(***************************************************************************)
CONSTANT Outcome      \* of an accepted report

VARIABLES verdict,    \* of the home: "open", an outcome, or "cancelled"
          known       \* by the worker's server

Init == verdict = "open" /\ known = "open"

\* The home accepts a report of a worker that nobody is stopping.
Accept(o) ==
  /\ verdict = "open" /\ known = "open"
  /\ verdict' = o
  /\ UNCHANGED known

\* The home gives the worker up; a report after that is rejected.
Cancel ==
  /\ verdict = "open"
  /\ verdict' = "cancelled"
  /\ UNCHANGED known

\* The worker's server learns the outcome from an acknowledgment.
Learn ==
  /\ verdict \in Outcome /\ known = "open"
  /\ known' = verdict
  /\ UNCHANGED verdict

\* The worker's server carries out the stop of a worker nobody settled.
CarryOut ==
  /\ verdict \in {"open", "cancelled"} /\ known = "open"
  /\ known' = "cancelled"
  /\ UNCHANGED verdict

Next == (\E o \in Outcome : Accept(o)) \/ Cancel \/ Learn \/ CarryOut

Spec == Init /\ [][Next]_<<verdict, known>>
=============================================================================
