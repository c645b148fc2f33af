------------------------ MODULE MCRegistrationHandoff ------------------------
(* RegistrationHandoff with the constants of its .cfg files.               *)
EXTENDS RegistrationHandoff, TLC

Perms == Permutations(Process) \cup Permutations(Approval)
=============================================================================
