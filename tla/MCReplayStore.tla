---------------------------- MODULE MCReplayStore ----------------------------
(* ReplayStore with the constants of its .cfg file.                        *)
EXTENDS ReplayStore, TLC

CONSTANTS c1, a1, q1

MCNonceScope == [a \in Action |-> "n1"]
=============================================================================
