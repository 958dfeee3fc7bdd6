--------------------------- MODULE MCPackManager ---------------------------
(* PackManager for TLC: revisions and catalogs are interchangeable.           *)
EXTENDS PackManager, TLC

Symmetry == Permutations(Revisions) \cup Permutations(Catalogs)
=============================================================================
