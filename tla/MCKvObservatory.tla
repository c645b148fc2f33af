--------------------------- MODULE MCKvObservatory ---------------------------
(* KvObservatory with the constants of its .cfg file.                      *)
EXTENDS KvObservatory, TLC

CONSTANTS n1, k1, k2, v1, v2

Perms == Permutations(Value)
=============================================================================
