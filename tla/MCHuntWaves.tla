----------------------------- MODULE MCHuntWaves -----------------------------
(* HuntWaves for TLC. *)
EXTENDS HuntWaves
=============================================================================
