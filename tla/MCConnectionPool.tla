-------------------------- MODULE MCConnectionPool --------------------------
(* Bounded instances of the connection pool.                                    *)
EXTENDS ConnectionPool, TLC

(* Clients are interchangeable, and so are connections (safety runs only).      *)
PoolSymmetry == Permutations(Clients) \cup Permutations(Conns)
=============================================================================
