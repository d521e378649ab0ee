---------------------------- MODULE MCRunMailbox ----------------------------
(* An instance of RunMailbox for TLC. *)
EXTENDS RunMailbox, TLC

CONSTANTS a, b, w, c1, c2, status

Alike == {p @@ q : p \in Permutations({c1, c2}), q \in Permutations({a, b})}

ReadsAndLooks == {<<"read", FALSE>>, <<"read", TRUE>>, <<"look", FALSE>>}

\* Every check names the reports it waits for.
Reports == {{WorkerDone}}
=============================================================================
