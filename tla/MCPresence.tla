------------------------------ MODULE MCPresence ------------------------------
(* Presence with the constants of its .cfg file.                           *)
EXTENDS Presence
=============================================================================
