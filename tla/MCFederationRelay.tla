------------------------- MODULE MCFederationRelay -------------------------
(* Instances of FederationRelay for TLC. *)
EXTENDS FederationRelay
============================================================================
