---------------------------- MODULE MCMsgqServer ----------------------------
(* Instances of MsgqServer for TLC.                                        *)
EXTENDS MsgqServer, TLC

Symmetry == Permutations(Pids) \cup Permutations(Requests)
=============================================================================
