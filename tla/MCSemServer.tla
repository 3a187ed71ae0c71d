---------------------------- MODULE MCSemServer ----------------------------
(* Instances of SemServer for TLC.                                         *)
EXTENDS SemServer, TLC

Symmetry == Permutations(Clients)
=============================================================================
