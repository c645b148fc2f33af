------------------------- MODULE MCObservationLineage -------------------------
(* ObservationLineage with the constants of its .cfg file.                 *)
EXTENDS ObservationLineage, TLC

CONSTANTS p1, p2

Perms == Permutations(Proc)
=============================================================================
