---------------------------- MODULE MCRelayNode ----------------------------
(***************************************************************************)
(* Instances of RelayNode for TLC.                                         *)
(***************************************************************************)
EXTENDS RelayNode, TLC

CONSTANTS h1, h2

Symmetry == Permutations(Handlers)

=============================================================================
