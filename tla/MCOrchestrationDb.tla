------------------------- MODULE MCOrchestrationDb -------------------------
(* Instances of OrchestrationDb for TLC. *)
EXTENDS OrchestrationDb, TLC

CONSTANTS t1, t2, p1, p2

\* One task, or a second one that depends on the first.
MCNoDeps == [t \in Task |-> {}]
MCChain  == [t \in Task |-> IF t = t2 THEN {t1} ELSE {}]

MCSymmetry == Permutations(Terminal)
============================================================================
