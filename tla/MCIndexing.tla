------------------------------ MODULE MCIndexing ------------------------------
(* Small instances of Indexing for TLC. *)
EXTENDS Indexing, TLC

(* One API process serves every slot.                                      *)
OneLoop == [r \in Reqs |-> "api"]

Symmetry == Permutations(Workers) \cup Permutations(Gens)
=============================================================================
