---------------------------- MODULE MCInstances ----------------------------
(* Symmetry of the model values of Instances. *)
EXTENDS Instances, TLC

MCSymmetry == Permutations(Pids)
=============================================================================
