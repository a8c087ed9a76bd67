------------------------------ MODULE PoolLease ------------------------------
(* What a connection pool promises its clients, without threads, queues or      *)
(* counters: it contains a bounded set of connections, lends each of them to one*)
(* client at a time, and takes none away from the client that has it.           *)
EXTENDS Naturals, FiniteSets

CONSTANTS Clients, Conns, None, maxPoolSize

VARIABLES
  pool,     \* the connections the pool contains
  lease     \* the connection each client has, or None

leaseVars == <<pool, lease>>

Leased == {lease[c] : c \in {d \in Clients : lease[d] # None}}

LeaseInit ==
  /\ \E k \in Conns : pool = {k}
  /\ lease = [c \in Clients |-> None]

Open(k) ==
  /\ k \in Conns \ pool
  /\ Cardinality(pool) < maxPoolSize
  /\ pool' = pool \cup {k}
  /\ UNCHANGED lease

Remove(S) ==
  /\ S \subseteq pool \ Leased
  /\ pool' = pool \ S
  /\ UNCHANGED lease

Lend(c, k) ==
  /\ lease[c] = None
  /\ k \in pool \ Leased
  /\ lease' = [lease EXCEPT ![c] = k]
  /\ UNCHANGED pool

GiveBack(c) ==
  /\ lease[c] # None
  /\ lease' = [lease EXCEPT ![c] = None]
  /\ UNCHANGED pool

LeaseNext ==
  \/ \E k \in Conns : Open(k)
  \/ \E S \in SUBSET Conns : Remove(S)
  \/ \E c \in Clients : GiveBack(c) \/ \E k \in Conns : Lend(c, k)

LeaseSpec == LeaseInit /\ [][LeaseNext]_leaseVars
=============================================================================
