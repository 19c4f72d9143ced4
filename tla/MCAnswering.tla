------------------------------ MODULE MCAnswering ------------------------------
(* Symmetry, for TLC. *)
EXTENDS Answering, TLC

Symmetry == Permutations(Docs) \cup Permutations(Gens) \cup Permutations(Reqs)
=============================================================================
