----------------------------- MODULE MCSdCardDxe -----------------------------
(* Model checking instances of SdCardDxe.                                  *)
EXTENDS SdCardDxe, TLC

Symmetry == Permutations(Inst)
=============================================================================
