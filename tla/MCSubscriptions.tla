-------------------------- MODULE MCSubscriptions --------------------------
(* Small values for the constants of Subscriptions. *)
EXTENDS Subscriptions, TLC

CONSTANTS any, motion, c1, c2

\* the filter on motion selects no event that is configured
MCSelects == [f \in Filters |-> IF f = motion THEN {} ELSE 0 .. NEvents - 1]

MCSymmetry == Permutations(Clients)
============================================================================
