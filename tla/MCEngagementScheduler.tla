------------------------ MODULE MCEngagementScheduler ------------------------
(* EngagementScheduler with the constants of its .cfg files.               *)
EXTENDS EngagementScheduler, TLC

Perms == Permutations(Process)
=============================================================================
