------------------------------- MODULE MCStores ------------------------------
(* Stores with the constants of its .cfg file.                             *)
EXTENDS Stores, TLC

CONSTANTS p1, p2, n1, n2, t1, t2, v1, k1, k2

Perms == UNION {Permutations(Process), Permutations(Nonce), Permutations(Text)}
==============================================================================
