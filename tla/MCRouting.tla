----------------------------- MODULE MCRouting -----------------------------
(***************************************************************************)
(* Provider ids are only compared for equality: any permutation of them is *)
(* a symmetry of Routing.                                                  *)
(***************************************************************************)
EXTENDS Routing

Symmetry == Permutations(Ids)
=============================================================================
