-------------------------- MODULE MCConnectionPool --------------------------
(***************************************************************************)
(* Small instances of ConnectionPool for TLC.                              *)
(***************************************************************************)
EXTENDS ConnectionPool, TLC

\* Connection names are interchangeable, and so are users.
PoolSymmetry == Permutations(Conns) \cup Permutations(Users)

=============================================================================
