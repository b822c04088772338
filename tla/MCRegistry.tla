----------------------------- MODULE MCRegistry -----------------------------
(***************************************************************************)
(* RegistryClient.tla with what TLC needs for more than one node: their    *)
(* ids are interchangeable.                                                *)
(***************************************************************************)
EXTENDS RegistryClient, TLC

Symmetry == Permutations(Node)
=============================================================================
