-------------------------- MODULE MCMTNonblocking ---------------------------
(* Instances of MTNonblocking for TLC: threads and clients are alike,       *)
(* except for the clients that may leave.                                   *)
EXTENDS MTNonblocking, TLC

Symmetry == Permutations(Leavers) \cup Permutations(Conn \ Leavers)
            \cup Permutations(Acceptor) \cup Permutations(Worker)
=============================================================================
