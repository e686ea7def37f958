-------------------------- MODULE MCLeases --------------------------
(* Small values for the constants of Leases. *)
EXTENDS Leases, TLC

CONSTANTS any, motion, c1, c2

\* the filter on motion selects event 0 and no other event
MCSelects == [f \in Filters |-> IF f = motion THEN {0} ELSE 0 .. NEvents - 1]

MCSymmetry == Permutations(Clients)
============================================================================
