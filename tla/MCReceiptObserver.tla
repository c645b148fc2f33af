-------------------------- MODULE MCReceiptObserver --------------------------
(* ReceiptObserver with the constants of its .cfg files.                   *)
EXTENDS ReceiptObserver, TLC

Perms == Permutations(Accepting) \cup Permutations(Rejecting)
=============================================================================
