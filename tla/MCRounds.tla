------------------------------ MODULE MCRounds ------------------------------
(* Rounds on a small instance.  Requests of one kind are interchangeable.  *)
EXTENDS Rounds, TLC

Symmetry == Permutations(Sends)
=============================================================================
