-------------------------- MODULE MCConnectionPool --------------------------
(* Instances of ConnectionPool for TLC. *)
EXTENDS ConnectionPool, TLC

\* Handlers and clients are interchangeable; leases are not, Anonymous is one.
Symmetry == Permutations(Handlers) \cup Permutations(Conns)
=============================================================================
