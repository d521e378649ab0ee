------------------------- MODULE MCMutationReceipts -------------------------
(* An instance of MutationReceipts for TLC. *)
EXTENDS MutationReceipts, TLC

CONSTANTS send, start, release, x, y, c1, c2

Alike == {p @@ q : p \in Permutations(Calls), q \in Permutations({x, y})}
=============================================================================
