---------------------------- MODULE MCRecording ----------------------------
(***************************************************************************)
(* Recording with the bit mask of the code written out: TLC evaluates the  *)
(* assumption, so NextIndex is the masked successor for the checked sizes. *)
(***************************************************************************)
EXTENDS Recording, Bitwise

ASSUME MaskAssumption == \A i \in Slots : NextIndex(i) = ((i + 1) & (Capacity - 1))
=============================================================================
