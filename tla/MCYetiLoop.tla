------------------------------ MODULE MCYetiLoop ------------------------------
(* Instances of YetiLoop for TLC. *)
EXTENDS YetiLoop, TLC

Alike == Permutations(Yetis)
=============================================================================
