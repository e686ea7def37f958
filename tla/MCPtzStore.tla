---------------------------- MODULE MCPtzStore ----------------------------
(* Small values for the constants of PtzStore. *)
EXTENDS PtzStore

CONSTANTS n1, n2, n3, p1, p2

MCSymmetry == Permutations(Names) \cup Permutations(Procs)
=============================================================================
