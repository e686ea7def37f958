----------------------------- MODULE MCShmLock -----------------------------
(* Symmetry of the model values of ShmLock. *)
EXTENDS ShmLock, TLC

MCSymmetry == Permutations(Cgis) \cup Permutations(Objects)
=============================================================================
