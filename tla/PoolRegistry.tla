----------------------------- MODULE PoolRegistry -----------------------------
(* The registry of pools (src/pool/Pools.cpp) and the data sources that use it  *)
(* (src/MariaDbDataSource.cpp). poolMap is keyed by a hash of the configuration *)
(* (URL, database, user, password); all data sources here name one URL and      *)
(* database, so that the user is the key. The lookups outside of mapLock, the   *)
(* UrlParser object that a pool and its data source share, and the second       *)
(* Pools::remove that a second close of a pool makes are what is hard.          *)
EXTENDS Naturals, FiniteSets

CONSTANTS
  Threads, Sources,      \* application threads; data sources
  Users,                 \* user and password
  PoolIds,               \* identities of pools
  None,                  \* nullptr
  Programs               \* the applications: for each thread, the calls that it makes,
                         \*   each with the data source it is made on

OpNames == {"get", "getAs", "setUser", "close", "closeAll", "closeName"}

ASSUME NoneAssumption == None \notin Threads \cup Sources \cup Users \cup PoolIds \cup OpNames
ASSUME ThreadsAssumption == IsFiniteSet(Threads)
ASSUME ProgramsAssumption == Programs \subseteq [Threads -> SUBSET (OpNames \X Sources)]

VARIABLES
  urlParser,     \* per data source: the user its parser has, or None before initialize()
  poolMap,       \* key -> registered pool
  mapLock,       \* its owner
  poolExecutor,  \* the executor exists
  scheduled,     \* pools whose removal task is in the executor
  poolState,     \* per pool: "none", "OK", "CLOSING"
  parser,        \* per pool: its urlParser (see Parsers)
  opened,        \* per pool: the users its connections were opened as
  pc, call,      \* per thread: location; the call it is in
  program        \* the application that runs

(* A UrlParser: the one of a data source, shared, or an object of its own.      *)
Parsers == [src : Sources \cup {None}, user : Users \cup {None}]
Shared(s) == [src |-> s, user |-> None]
Own(u) == [src |-> None, user |-> u]
hashCode(x) == IF x.src = None THEN x.user ELSE urlParser[x.src]

Calls == [op : OpNames \cup {None}, arg : Parsers, asked : Users \cup {None},
          pool : PoolIds \cup {None}, todo : SUBSET PoolIds]
NoCall == [op |-> None, arg |-> Own(None), asked |-> None, pool |-> None, todo |-> {}]

Locations == {"out", "find", "deref", "lock", "create", "use", "held",
              "closing", "removeFind", "removeLock", "each"}

registryVars == <<poolMap, mapLock, poolExecutor, scheduled>>
poolVars == <<poolState, parser, opened>>
vars == <<urlParser, registryVars, poolVars, pc, call, program>>

TypeOK ==
  /\ urlParser \in [Sources -> Users \cup {None}]
  /\ poolMap \in [Users -> PoolIds \cup {None}]
  /\ mapLock \in Threads \cup {None}
  /\ poolExecutor \in BOOLEAN /\ scheduled \subseteq PoolIds
  /\ poolState \in [PoolIds -> {"none", "OK", "CLOSING"}]
  /\ parser \in [PoolIds -> Parsers]
  /\ opened \in [PoolIds -> SUBSET Users]
  /\ pc \in [Threads -> Locations] /\ call \in [Threads -> Calls]
  /\ program \in Programs

Init ==
  /\ urlParser = [s \in Sources |-> None]
  /\ poolMap = [u \in Users |-> None] /\ mapLock = None
  /\ poolExecutor = FALSE /\ scheduled = {}
  /\ poolState = [p \in PoolIds |-> "none"]
  /\ parser = [p \in PoolIds |-> Own(None)] /\ opened = [p \in PoolIds |-> {}]
  /\ pc = [t \in Threads |-> "out"] /\ call = [t \in Threads |-> NoCall]
  /\ program \in Programs

-----------------------------------------------------------------------------
Registered == {poolMap[u] : u \in Users} \ {None}

Go(t, loc) == pc' = [pc EXCEPT ![t] = loc]
Leave(t) == Go(t, "out") /\ call' = [call EXCEPT ![t] = NoCall]

\* thread t may make this call now
Calling(t, op, s) == pc[t] = "out" /\ <<op, s>> \in program[t]

Retrieve(t, op, s, x, u) ==
  /\ Calling(t, op, s)
  /\ Go(t, "find")
  /\ call' = [call EXCEPT ![t] = [NoCall EXCEPT !.op = op, !.arg = x, !.asked = u]]

\* the user that initialize() finds in the URL, the properties or setUser
Initialized(s, u) == urlParser[s] \in {None, u}

-----------------------------------------------------------------------------
(* Plausible slips; the properties below have to notice them.                   *)

\* the lookup is not repeated under the lock
LockedFindAgain(t, u) ==
  /\ mapLock = None
  /\ mapLock' = t /\ poolExecutor' = TRUE /\ Go(t, "create")

\* Pools::remove shuts the executor down with every pool it removes
AfterEraseAlways(m) == poolExecutor' = FALSE /\ scheduled' = {}

-----------------------------------------------------------------------------
(* MariaDbDataSource                                                            *)

GetConnection(t, s) ==
  \E u \in Users :
    /\ Initialized(s, u)
    /\ urlParser' = [urlParser EXCEPT ![s] = u]
    /\ Retrieve(t, "get", s, Shared(s), None)
    /\ UNCHANGED <<registryVars, poolVars>>

(* The parser is cloned first; the user is then set in the SHARED one, and the  *)
(* clone is what the connection is asked for with.                              *)
GetConnectionAs(t, s, u) ==
  /\ urlParser' = [urlParser EXCEPT ![s] = u]
  /\ Retrieve(t, "getAs", s, Own(IF urlParser[s] = None THEN u ELSE urlParser[s]), u)
  /\ UNCHANGED <<registryVars, poolVars>>

(* setUser and its like: a new parser. Pools keep the one they have; a call     *)
(* under way refers to the data source's pointer and goes on with the new one.  *)
SetUser(t, s, u) ==
  /\ Calling(t, "setUser", s) /\ urlParser[s] \notin {None, u}
  /\ urlParser' = [urlParser EXCEPT ![s] = u]
  /\ parser' = [p \in PoolIds |-> IF parser[p].src = s THEN Own(urlParser[s]) ELSE parser[p]]
  /\ UNCHANGED <<registryVars, poolState, opened, pc, call>>

(* close(): retrievePool, which makes a pool if there is none, then Pool::close.*)
CloseDataSource(t, s) ==
  /\ urlParser[s] # None
  /\ Retrieve(t, "close", s, Shared(s), None)
  /\ UNCHANGED <<urlParser, registryVars, poolVars>>

-----------------------------------------------------------------------------
(* Pools::retrievePool                                                          *)

(* find, without the lock.                                                      *)
UnlockedFind(t) ==
  /\ pc[t] = "find"
  /\ LET p == poolMap[hashCode(call[t].arg)]
     IN  IF p # None
         THEN call' = [call EXCEPT ![t].pool = p] /\ Go(t, "deref")
         ELSE Go(t, "lock") /\ UNCHANGED call
  /\ UNCHANGED <<urlParser, registryVars, poolVars>>

(* return cit->second, without the lock. The node may have been erased by now;  *)
(* the copy then reads freed memory, which may still hold the old pool or not.  *)
Dereference(t) ==
  /\ pc[t] = "deref"
  /\ \/ Go(t, "use") /\ UNCHANGED call
     \/ call[t].pool \notin Registered /\ Leave(t)
  /\ UNCHANGED <<urlParser, registryVars, poolVars>>

LockedFind(t, u) ==
  /\ mapLock = None
  /\ IF poolMap[u] # None
     THEN Go(t, "deref") /\ UNCHANGED <<mapLock, poolExecutor>>
     ELSE mapLock' = t /\ poolExecutor' = TRUE /\ Go(t, "create")

Lookup(t) ==
  /\ pc[t] = "lock"
  /\ LET u == hashCode(call[t].arg)
     IN  LockedFind(t, u) /\ call' = [call EXCEPT ![t].pool = poolMap[u]]
  /\ UNCHANGED <<urlParser, poolMap, scheduled, poolVars>>

(* new Pool and insert, with the lock. The pool's first connection takes time,  *)
(* and may throw; insert leaves an entry that is there alone.                   *)
CreatePool(t) ==
  /\ pc[t] = "create"
  /\ mapLock' = None
  /\ \/ Leave(t) /\ UNCHANGED <<poolMap, scheduled, poolVars>>
     \/ \E p \in PoolIds :
          LET u == hashCode(call[t].arg)
          IN  /\ poolState[p] = "none"
              /\ poolState' = [poolState EXCEPT ![p] = "OK"]
              /\ parser' = [parser EXCEPT ![p] = call[t].arg]
              /\ opened' = [opened EXCEPT ![p] = {u}]
              /\ scheduled' = scheduled \cup {p}
              /\ poolMap' = [poolMap EXCEPT ![u] = IF @ = None THEN p ELSE @]
              /\ call' = [call EXCEPT ![t].pool = p] /\ Go(t, "use")
  /\ UNCHANGED <<urlParser, poolExecutor>>

(* The appender opens another connection, with the parser the pool has.         *)
OpenConnection(p) ==
  /\ poolState[p] = "OK"
  /\ opened' = [opened EXCEPT ![p] = @ \cup {hashCode(parser[p])}]
  /\ UNCHANGED <<urlParser, registryVars, poolState, parser, pc, call>>

(* getPoolConnection: the client gets one of the pool's connections, or none.   *)
Serve(t) ==
  /\ pc[t] = "use" /\ call[t].op \in {"get", "getAs"}
  /\ \/ \E u \in opened[call[t].pool] : call' = [call EXCEPT ![t].arg = Own(u)] /\ Go(t, "held")
     \/ Leave(t)
  /\ UNCHANGED <<urlParser, registryVars, poolVars>>

Release(t) == pc[t] = "held" /\ Leave(t) /\ UNCHANGED <<urlParser, registryVars, poolVars>>

-----------------------------------------------------------------------------
(* Pool::close as the registry sees it, and Pools::remove                       *)

BeginClose(t) ==
  /\ \/ pc[t] = "use" /\ call[t].op = "close"
     \/ pc[t] = "closing"
  /\ poolState' = [poolState EXCEPT ![call[t].pool] = "CLOSING"]
  /\ Go(t, "removeFind")
  /\ UNCHANGED <<urlParser, registryVars, parser, opened, call>>

\* what follows Pools::remove
AfterRemove(t) ==
  IF call[t].op = "close" THEN Leave(t) ELSE Go(t, "each") /\ UNCHANGED call

(* The lookup without the lock.                                                 *)
RemoveFind(t) ==
  /\ pc[t] = "removeFind"
  /\ IF poolMap[hashCode(parser[call[t].pool])] = None
     THEN AfterRemove(t)
     ELSE Go(t, "removeLock") /\ UNCHANGED call
  /\ UNCHANGED <<urlParser, registryVars, poolVars>>

RemovedKey(t) == hashCode(parser[call[t].pool])

AfterErase(m) ==
  IF \A u \in Users : m[u] = None
  THEN poolExecutor' = FALSE /\ scheduled' = {}
  ELSE UNCHANGED <<poolExecutor, scheduled>>

(* With the lock: the entry of that key goes, whichever pool it is.             *)
RemoveLocked(t) ==
  /\ pc[t] = "removeLock" /\ mapLock = None
  /\ IF \E u \in Users : u = RemovedKey(t) /\ poolMap[u] # None
     THEN LET m == [poolMap EXCEPT ![RemovedKey(t)] = None]
          IN  poolMap' = m /\ AfterErase(m)
     ELSE UNCHANGED <<poolMap, poolExecutor, scheduled>>
  /\ AfterRemove(t)
  /\ UNCHANGED <<urlParser, mapLock, poolVars>>

-----------------------------------------------------------------------------
(* Pools::close() and Pools::close(poolName): every pool, or one, is closed     *)
(* while mapLock is held.                                                       *)
ClosePools(t, op) ==
  /\ \E s \in Sources : Calling(t, op, s)
  /\ mapLock = None /\ poolExecutor
  /\ \E S \in SUBSET Registered :
       /\ IF op = "closeAll" THEN S = Registered ELSE Cardinality(S) = 1
       /\ call' = [call EXCEPT ![t] = [NoCall EXCEPT !.op = op, !.todo = S]]
  /\ mapLock' = t /\ Go(t, "each")
  /\ UNCHANGED <<urlParser, poolMap, poolExecutor, scheduled, poolVars>>

CloseNext(t) ==
  /\ pc[t] = "each"
  /\ \E p \in call[t].todo :
       call' = [call EXCEPT ![t].pool = p, ![t].todo = @ \ {p}]
  /\ Go(t, "closing")
  /\ UNCHANGED <<urlParser, registryVars, poolVars>>

(* Pools::close() shuts the executor down and clears the map; close(poolName)   *)
(* removes the pool's key once more.                                            *)
CloseDone(t) ==
  /\ pc[t] = "each" /\ call[t].todo = {}
  /\ IF call[t].op = "closeAll"
     THEN poolMap' = [u \in Users |-> None] /\ poolExecutor' = FALSE /\ scheduled' = {}
     ELSE /\ poolMap' = [u \in Users |-> IF u = RemovedKey(t) THEN None ELSE poolMap[u]]
          /\ UNCHANGED <<poolExecutor, scheduled>>
  /\ mapLock' = None /\ Leave(t)
  /\ UNCHANGED <<urlParser, poolVars>>

-----------------------------------------------------------------------------
Continue(t) ==
  \/ UnlockedFind(t) \/ Dereference(t) \/ Lookup(t) \/ CreatePool(t) \/ Serve(t)
  \/ BeginClose(t) \/ RemoveFind(t) \/ RemoveLocked(t) \/ CloseNext(t) \/ CloseDone(t)

Step ==
  \/ \E t \in Threads :
       \/ \E s \in Sources : \/ GetConnection(t, s) \/ CloseDataSource(t, s)
                             \/ \E u \in Users : GetConnectionAs(t, s, u) \/ SetUser(t, s, u)
       \/ \E op \in {"closeAll", "closeName"} : ClosePools(t, op)
       \/ Continue(t) \/ Release(t)
  \/ \E p \in PoolIds : OpenConnection(p)

Next == Step /\ UNCHANGED program

Spec == Init /\ [][Next]_vars

-----------------------------------------------------------------------------
(* A registered pool finds the executor that removes its idle connections, in   *)
(* whatever order pools are made, closed and removed.                           *)
RegisteredIsScheduled == \A p \in Registered : poolExecutor /\ p \in scheduled

(* An application that only gets connections, and closes data sources from one *)
(* thread.                                                                      *)
Plain ==
  /\ \A t \in Threads : \A c \in program[t] : c[1] \in {"get", "close"}
  /\ Cardinality({t \in Threads : \E s \in Sources : <<"close", s>> \in program[t]}) <= 1

(* "Get existing pool for a configuration. Create it if doesn't exists": in a   *)
(* plain application, two open pools are never for the same user, although the  *)
(* first lookup and the last access take no lock.                               *)
OneOpenPool ==
  Plain => \A p, q \in PoolIds :
    (poolState[p] = "OK" /\ poolState[q] = "OK" /\ hashCode(parser[p]) = hashCode(parser[q])) => p = q

(* In a plain application a pool that is open is in the registry, under the key *)
(* that a close of its data source will look for.                               *)
OpenPoolIsRegistered ==
  Plain => \A p \in PoolIds : poolState[p] = "OK" => poolMap[hashCode(parser[p])] = p

(* In a plain application a closed pool leaves the registry: while it is there, *)
(* a thread is on its way to remove it.                                         *)
ClosedPoolLeaves ==
  Plain => \A p \in Registered : poolState[p] = "CLOSING" =>
    \E t \in Threads : call[t].pool = p /\ pc[t] \in {"removeFind", "removeLock", "each"}

(* poolMap, the executor and the states of the pools tell the same, whichever   *)
(* lookups, creations, closes and removals overlap (retrievePool, remove,       *)
(* close).                                                                      *)
MapMirrorsPools ==
  /\ TypeOK
  /\ OpenPoolIsRegistered
  /\ ClosedPoolLeaves
  /\ RegisteredIsScheduled
=============================================================================
