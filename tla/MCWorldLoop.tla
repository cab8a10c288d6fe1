---------------------------- MODULE MCWorldLoop ----------------------------
(* Instances of WorldLoop for TLC: the monsters are interchangeable. *)
EXTENDS WorldLoop, TLC

Alike == Permutations(Monsters)

=============================================================================
