---------------------------- MODULE MCMTBlocking ----------------------------
(* Instances of MTBlocking for TLC: threads and descriptors are alike. *)
EXTENDS MTBlocking, TLC

Symmetry == Permutations(Conn) \cup Permutations(Fd)
=============================================================================
