----------------------------- MODULE MCHuntSlots -----------------------------
(***************************************************************************)
(* HuntSlots for TLC: the specification with the inductive invariant of    *)
(* its proofs, so that a run can check that invariant as well.             *)
(***************************************************************************)
EXTENDS HuntSlotsProofs
=============================================================================
