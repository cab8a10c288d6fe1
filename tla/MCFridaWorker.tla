---------------------------- MODULE MCFridaWorker ----------------------------
(***************************************************************************)
(* FridaWorker for TLC: commands and workers are interchangeable.          *)
(***************************************************************************)
EXTENDS FridaWorkerProofs, TLC

Interchangeable == Permutations(Clis) \cup Permutations(Workers)
=============================================================================
