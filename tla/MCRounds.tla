------------------------------ MODULE MCRounds ------------------------------
(* Rounds with interchangeable requests. *)
EXTENDS Rounds, TLC

Alike == Permutations(Slots)
=============================================================================
