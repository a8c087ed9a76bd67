-------------------------- MODULE PoolRegistryProofs --------------------------
(* The registry and its executor agree for every application, and in a plain    *)
(* application there is one open pool per configuration, for every number of    *)
(* threads, data sources, users and pools.                                      *)
EXTENDS PoolRegistry, FiniteSetTheorems, TLAPS

Retrieving == {"find", "deref", "lock", "create", "use", "held"}
HasPool == {"deref", "use", "closing", "removeFind", "removeLock"}
Removing == {"removeFind", "removeLock"}

\* where thread t can be with the call c, and what it then holds
InPlace(t, loc, c) ==
  /\ loc \in Retrieving => c.op \in {"get", "getAs", "close"}
  /\ loc \in Removing => c.op \in {"close", "closeAll", "closeName"}
  /\ loc \in {"closing", "each"} => c.op \in {"closeAll", "closeName"}
  /\ c.op \in {"closeAll", "closeName"} \/ loc = "create" => mapLock = t
  /\ loc = "create" => poolExecutor

\* keys are looked up, and pools used, only once they exist
KeyKnown(loc, c) ==
  /\ loc \in {"find", "lock", "create"} => hashCode(c.arg) \in Users
  /\ loc \in HasPool => c.pool \in PoolIds /\ poolState[c.pool] # "none"
  /\ loc \in Removing => poolState[c.pool] = "CLOSING"
  /\ \A p \in c.todo : poolState[p] # "none"

\* a plain application makes two kinds of calls, on parsers that are never replaced
PlainCall(t, loc, c) ==
  /\ c.op \in {None, "get", "close"}
  /\ c.op = "close" => \E s \in Sources : <<"close", s>> \in program[t]
  /\ loc \in Retrieving \ {"held"} => c.arg.src # None

\* in a plain application the creator's key is free, and what the closing thread
\* has found stays in the map until that thread removes it
PlainFound(loc, c) ==
  /\ loc = "create" => poolMap[hashCode(c.arg)] = None
  /\ c.op = "close" /\ loc \in HasPool => poolMap[hashCode(parser[c.pool])] = c.pool

ThreadRight(t, loc, c) ==
  InPlace(t, loc, c) /\ KeyKnown(loc, c) /\ (Plain => PlainCall(t, loc, c) /\ PlainFound(loc, c))

PoolsKnown ==
  /\ \A u \in Users : poolMap[u] # None => poolState[poolMap[u]] # "none"
  /\ \A p \in PoolIds : poolState[p] # "none" => hashCode(parser[p]) \in Users

\* in a plain application the map has every pool under its own key
PlainMap ==
  Plain => /\ \A p \in PoolIds : poolState[p] # "none" => parser[p].src # None
           /\ \A u \in Users : poolMap[u] # None => hashCode(parser[poolMap[u]]) = u

IInv ==
  /\ TypeOK
  /\ \A t \in Threads : ThreadRight(t, pc[t], call[t])
  /\ PoolsKnown /\ RegisteredIsScheduled
  /\ PlainMap /\ OpenPoolIsRegistered /\ ClosedPoolLeaves

-----------------------------------------------------------------------------
(* One thread takes a step: it is at loc with the call c, the others stay.      *)
Moved(t, loc, c) ==
  /\ pc' \in [Threads -> Locations] /\ call' \in [Threads -> Calls]
  /\ pc'[t] = loc /\ call'[t] = c
  /\ \A x \in Threads : x # t => pc'[x] = pc[x] /\ call'[x] = call[x]

\* a thread that is about to remove a pool goes on with that
KeepsRemoving(t, loc, c) ==
  Plain /\ pc[t] \in Removing => loc \in Removing /\ c.pool = call[t].pool

LEMMA ThreadMoves ==
  ASSUME TypeOK, NEW t \in Threads, NEW loc \in Locations, NEW c \in Calls,
         pc' = [pc EXCEPT ![t] = loc], call' = [call EXCEPT ![t] = c]
  PROVE  Moved(t, loc, c)
BY DEF TypeOK, Moved

(* A thread that leaves has no call any more.                                   *)
LEMMA ThreadLeaves ==
  ASSUME TypeOK, NEW t \in Threads, Leave(t)
  PROVE  Moved(t, "out", NoCall)
<1>1. NoCall \in Calls /\ "out" \in Locations
  BY DEF NoCall, Calls, Parsers, Own, Locations
<1> QED
  BY <1>1, ThreadMoves DEF Leave, Go

(* Outside, a thread is right.                                                  *)
LEMMA OutsideIsRight ==
  ASSUME NEW t \in Threads PROVE ThreadRight(t, "out", NoCall)
BY NoneAssumption DEF ThreadRight, InPlace, KeyKnown, PlainCall, PlainFound, NoCall, Own, OpNames,
                      Retrieving, HasPool, Removing

(* The fields of a call after one of them is set.                               *)
LEMMA CallFields ==
  ASSUME NEW c \in Calls
  PROVE  /\ \A p \in PoolIds \cup {None} : \E d \in Calls :
              /\ d = [c EXCEPT !.pool = p]
              /\ d.op = c.op /\ d.arg = c.arg /\ d.pool = p /\ d.todo = c.todo
         /\ \A x \in Parsers : \E d \in Calls :
              /\ d = [c EXCEPT !.arg = x]
              /\ d.op = c.op /\ d.arg = x /\ d.pool = c.pool /\ d.todo = c.todo
         /\ \A p \in PoolIds : \E d \in Calls :
              /\ d = [c EXCEPT !.pool = p, !.todo = c.todo \ {p}]
              /\ d.op = c.op /\ d.arg = c.arg /\ d.pool = p /\ d.todo = c.todo \ {p}
<1>1. ASSUME NEW p \in PoolIds \cup {None}
      PROVE  LET d == [c EXCEPT !.pool = p]
             IN  d \in Calls /\ d.op = c.op /\ d.arg = c.arg /\ d.pool = p /\ d.todo = c.todo
  BY DEF Calls
<1>2. ASSUME NEW x \in Parsers
      PROVE  LET d == [c EXCEPT !.arg = x]
             IN  d \in Calls /\ d.op = c.op /\ d.arg = x /\ d.pool = c.pool /\ d.todo = c.todo
  BY DEF Calls
<1>3. ASSUME NEW p \in PoolIds
      PROVE  LET d == [c EXCEPT !.pool = p, !.todo = c.todo \ {p}]
             IN  d \in Calls /\ d.op = c.op /\ d.arg = c.arg /\ d.pool = p /\ d.todo = c.todo \ {p}
  BY DEF Calls
<1> QED
  BY <1>1, <1>2, <1>3, ZenonT(30)

(* A step of one thread that changes nothing else.                              *)
LEMMA ThreadOnly ==
  ASSUME IInv, NEW t \in Threads, NEW loc, NEW c, Moved(t, loc, c),
         UNCHANGED <<urlParser, registryVars, poolVars, program>>,
         ThreadRight(t, loc, c), KeepsRemoving(t, loc, c)
  PROVE  IInv'
<1>0. UNCHANGED <<urlParser, poolMap, mapLock, poolExecutor, scheduled, poolState, parser, opened, program>>
  BY DEF registryVars, poolVars
<1>1. TypeOK'
  BY <1>0 DEF IInv, TypeOK, Moved
<1>2. ASSUME NEW x \in Threads PROVE ThreadRight(x, pc[x], call[x])'
  <2>1. ThreadRight(x, pc'[x], call'[x])
    BY DEF IInv, Moved
  <2> QED
    BY <1>0, <2>1 DEF ThreadRight, InPlace, KeyKnown, PlainCall, PlainFound, hashCode, Plain
<1>3. (PoolsKnown /\ RegisteredIsScheduled /\ PlainMap /\ OpenPoolIsRegistered)'
  BY <1>0 DEF IInv, PoolsKnown, RegisteredIsScheduled, Registered, PlainMap, OpenPoolIsRegistered, hashCode, Plain
<1>4. ClosedPoolLeaves'
  <2> SUFFICES ASSUME Plain, NEW p \in Registered, poolState[p] = "CLOSING"
               PROVE  \E x \in Threads : call'[x].pool = p /\ pc'[x] \in {"removeFind", "removeLock", "each"}
    BY <1>0 DEF ClosedPoolLeaves, Plain, Registered
  <2>1. PICK x \in Threads : call[x].pool = p /\ pc[x] \in {"removeFind", "removeLock", "each"}
    BY DEF IInv, ClosedPoolLeaves
  <2>2. pc[x] \in Removing
    <3>1. ThreadRight(x, pc[x], call[x]) /\ Plain
      BY DEF IInv
    <3> QED
      BY <2>1, <3>1, NoneAssumption DEF ThreadRight, InPlace, PlainCall, Removing, OpNames
  <2>3. CASE x = t
    BY <2>1, <2>2, <2>3 DEF KeepsRemoving, Moved, Removing
  <2>4. CASE x # t
    BY <2>1, <2>4 DEF Moved
  <2> QED
    BY <2>3, <2>4
<1> QED
  BY <1>1, <1>2, <1>3, <1>4 DEF IInv

(* A thread goes elsewhere with the call it has, or with another pool in it.    *)
LEMMA ThreadGoes ==
  ASSUME TypeOK, NEW t \in Threads, NEW loc \in Locations, Go(t, loc)
  PROVE  /\ UNCHANGED call => Moved(t, loc, call[t])
         /\ \A p \in PoolIds \cup {None} :
              call' = [call EXCEPT ![t].pool = p] => Moved(t, loc, [call[t] EXCEPT !.pool = p])
<1>1. call[t] \in Calls /\ pc' = [pc EXCEPT ![t] = loc] /\ call \in [Threads -> Calls]
  BY DEF TypeOK, Go
<1>2. UNCHANGED call => Moved(t, loc, call[t])
  BY <1>1 DEF TypeOK, Moved
<1>3. ASSUME NEW p \in PoolIds \cup {None}, call' = [call EXCEPT ![t].pool = p]
      PROVE  Moved(t, loc, [call[t] EXCEPT !.pool = p])
  <2>1. [call[t] EXCEPT !.pool = p] \in Calls
    BY <1>1 DEF Calls
  <2>2. call' = [call EXCEPT ![t] = [call[t] EXCEPT !.pool = p]]
    BY <1>3
  <2> QED
    BY <1>1, <2>1, <2>2, ThreadMoves
<1> QED
  BY <1>2, <1>3

(* A data source asks for its pool.                                             *)
LEMMA ThreadRetrieves ==
  ASSUME TypeOK, NEW t \in Threads, NEW op \in OpNames, NEW s \in Sources, NEW x \in Parsers,
         NEW u \in Users \cup {None}, Retrieve(t, op, s, x, u)
  PROVE  \E c \in Calls :
           /\ Moved(t, "find", c) /\ pc[t] = "out" /\ <<op, s>> \in program[t]
           /\ c.op = op /\ c.arg = x /\ c.pool = None /\ c.todo = {}
<1> DEFINE c == [NoCall EXCEPT !.op = op, !.arg = x, !.asked = u]
<1>1. c \in Calls /\ c.op = op /\ c.arg = x /\ c.pool = None /\ c.todo = {}
  BY DEF NoCall, Calls, Parsers, Own
<1>2. pc' = [pc EXCEPT ![t] = "find"] /\ call' = [call EXCEPT ![t] = c] /\ pc[t] = "out" /\ <<op, s>> \in program[t]
  BY DEF Retrieve, Go, Calling
<1>3. "find" \in Locations
  BY DEF Locations
<1> HIDE DEF c
<1>4. Moved(t, "find", c)
  BY <1>1, <1>2, <1>3, ThreadMoves
<1> QED
  BY <1>1, <1>2, <1>4

-----------------------------------------------------------------------------
(* close() of a data source begins.                                             *)
LEMMA CloseDataSourceStep ==
  ASSUME IInv, NEW t \in Threads, NEW s \in Sources, CloseDataSource(t, s), program' = program
  PROVE  IInv'
<1>1. TypeOK /\ Shared(s) \in Parsers /\ "close" \in OpNames
  BY DEF IInv, Parsers, Shared, OpNames
<1>2. PICK c \in Calls :
        /\ Moved(t, "find", c) /\ pc[t] = "out" /\ <<"close", s>> \in program[t]
        /\ c.op = "close" /\ c.arg = Shared(s) /\ c.pool = None /\ c.todo = {}
  BY <1>1, ThreadRetrieves DEF CloseDataSource
<1>3. hashCode(c.arg) \in Users /\ c.arg.src # None
  BY <1>1, <1>2, NoneAssumption DEF CloseDataSource, TypeOK, hashCode, Shared
<1>4. ThreadRight(t, "find", c) /\ KeepsRemoving(t, "find", c)
  BY <1>2, <1>3 DEF ThreadRight, InPlace, KeyKnown, PlainCall, PlainFound, KeepsRemoving, Retrieving, HasPool, Removing
<1> QED
  BY <1>2, <1>4, ThreadOnly DEF CloseDataSource

(* retrievePool looks the pool up without the lock.                             *)
LEMMA UnlockedFindStep ==
  ASSUME IInv, NEW t \in Threads, UnlockedFind(t), program' = program
  PROVE  IInv'
<1> DEFINE u == hashCode(call[t].arg)
<1>1. TypeOK /\ call[t] \in Calls /\ pc[t] = "find" /\ ThreadRight(t, "find", call[t])
  BY DEF IInv, TypeOK, UnlockedFind
<1>2. u \in Users
  BY <1>1 DEF ThreadRight, KeyKnown
<1>3. UNCHANGED <<urlParser, registryVars, poolVars, program>>
  BY DEF UnlockedFind
<1>4. CASE poolMap[u] # None
  <2>1. PICK p \in PoolIds : p = poolMap[u] /\ poolState[p] # "none" /\ (Plain => hashCode(parser[p]) = u)
    BY <1>1, <1>2, <1>4 DEF IInv, TypeOK, PoolsKnown, PlainMap
  <2>2. PICK c \in Calls :
          Moved(t, "deref", c) /\ c.op = call[t].op /\ c.arg = call[t].arg /\ c.pool = p /\ c.todo = call[t].todo
    <3>1. Go(t, "deref") /\ call' = [call EXCEPT ![t].pool = p]
      BY <1>4, <2>1 DEF UnlockedFind
    <3>2. PICK c \in Calls :
            /\ c = [call[t] EXCEPT !.pool = p]
            /\ c.op = call[t].op /\ c.arg = call[t].arg /\ c.pool = p /\ c.todo = call[t].todo
      BY <1>1, CallFields, Zenon
    <3>3. Moved(t, "deref", c)
      BY <1>1, <3>1, <3>2, ThreadGoes DEF Locations
    <3> QED
      BY <3>2, <3>3
  <2>3. ThreadRight(t, "deref", c) /\ KeepsRemoving(t, "deref", c)
    BY <1>1, <1>2, <2>1, <2>2
       DEF ThreadRight, InPlace, KeyKnown, PlainCall, PlainFound, KeepsRemoving, Retrieving, HasPool, Removing
  <2> QED
    BY <1>3, <2>2, <2>3, ThreadOnly
<1>5. CASE poolMap[u] = None
  <2>1. Moved(t, "lock", call[t])
    BY <1>1, <1>5, ThreadGoes DEF UnlockedFind, Locations
  <2>2. ThreadRight(t, "lock", call[t]) /\ KeepsRemoving(t, "lock", call[t])
    BY <1>1, <1>2
       DEF ThreadRight, InPlace, KeyKnown, PlainCall, PlainFound, KeepsRemoving, Retrieving, HasPool, Removing
  <2> QED
    BY <1>3, <2>1, <2>2, ThreadOnly
<1> QED
  BY <1>4, <1>5

(* It returns what it found, or what the freed node still holds.                *)
LEMMA DereferenceStep ==
  ASSUME IInv, NEW t \in Threads, Dereference(t) \/ Release(t), program' = program
  PROVE  IInv'
<1>1. TypeOK /\ call[t] \in Calls /\ pc[t] \in {"deref", "held"} /\ ThreadRight(t, pc[t], call[t])
  BY DEF IInv, TypeOK, Dereference, Release
<1>2. UNCHANGED <<urlParser, registryVars, poolVars, program>>
  BY DEF Dereference, Release
<1>3. CASE Leave(t)
  <2>1. Moved(t, "out", NoCall) /\ ThreadRight(t, "out", NoCall)
    BY <1>1, <1>3, ThreadLeaves, OutsideIsRight
  <2>2. KeepsRemoving(t, "out", NoCall)
    BY <1>1 DEF KeepsRemoving, Removing
  <2> QED
    BY <1>2, <2>1, <2>2, ThreadOnly
<1>4. CASE pc[t] = "deref" /\ Go(t, "use") /\ UNCHANGED call
  <2>1. Moved(t, "use", call[t])
    BY <1>1, <1>4, ThreadGoes DEF Locations
  <2>2. ThreadRight(t, "use", call[t]) /\ KeepsRemoving(t, "use", call[t])
    BY <1>1, <1>4
       DEF ThreadRight, InPlace, KeyKnown, PlainCall, PlainFound, KeepsRemoving, Retrieving, HasPool, Removing
  <2> QED
    BY <1>2, <2>1, <2>2, ThreadOnly
<1> QED
  BY <1>3, <1>4 DEF Dereference, Release

(* The pool serves one of its connections, or none.                             *)
LEMMA ServeStep ==
  ASSUME IInv, NEW t \in Threads, Serve(t), program' = program
  PROVE  IInv'
<1>1. TypeOK /\ call[t] \in Calls /\ pc[t] = "use" /\ ThreadRight(t, "use", call[t])
      /\ call[t].op \in {"get", "getAs"}
  BY DEF IInv, TypeOK, Serve
<1>2. UNCHANGED <<urlParser, registryVars, poolVars, program>>
  BY DEF Serve
<1>3. CASE Leave(t)
  <2>1. Moved(t, "out", NoCall) /\ ThreadRight(t, "out", NoCall)
    BY <1>1, <1>3, ThreadLeaves, OutsideIsRight
  <2>2. KeepsRemoving(t, "out", NoCall)
    BY <1>1 DEF KeepsRemoving, Removing
  <2> QED
    BY <1>2, <2>1, <2>2, ThreadOnly
<1>4. ASSUME NEW u \in opened[call[t].pool], call' = [call EXCEPT ![t].arg = Own(u)], Go(t, "held")
      PROVE  IInv'
  <2>1. u \in Users
    BY <1>1, <1>4 DEF ThreadRight, KeyKnown, HasPool, TypeOK
  <2>2. Own(u) \in Parsers
    BY <2>1 DEF Own, Parsers
  <2>3. PICK c \in Calls :
          /\ c = [call[t] EXCEPT !.arg = Own(u)]
          /\ c.op = call[t].op /\ c.arg = Own(u) /\ c.pool = call[t].pool /\ c.todo = call[t].todo
    BY <1>1, <2>2, CallFields, Zenon
  <2>4. Moved(t, "held", c)
    <3>1. call' = [call EXCEPT ![t] = c] /\ pc' = [pc EXCEPT ![t] = "held"] /\ "held" \in Locations
      BY <1>4, <2>3 DEF Go, Locations
    <3> QED
      BY <1>1, <3>1, ThreadMoves
  <2>5. ThreadRight(t, "held", c) /\ KeepsRemoving(t, "held", c)
    BY <1>1, <2>3
       DEF ThreadRight, InPlace, KeyKnown, PlainCall, PlainFound, KeepsRemoving, Retrieving, HasPool, Removing
  <2> QED
    BY <1>2, <2>4, <2>5, ThreadOnly
<1> QED
  BY <1>3, <1>4 DEF Serve

(* Pools::remove looks the key up without the lock.                             *)
LEMMA RemoveFindStep ==
  ASSUME IInv, NEW t \in Threads, RemoveFind(t), program' = program
  PROVE  IInv'
<1>1. TypeOK /\ call[t] \in Calls /\ pc[t] = "removeFind" /\ ThreadRight(t, "removeFind", call[t])
  BY DEF IInv, TypeOK, RemoveFind
<1>2. UNCHANGED <<urlParser, registryVars, poolVars, program>>
  BY DEF RemoveFind
<1>3. CASE Go(t, "removeLock") /\ UNCHANGED call
  <2>1. Moved(t, "removeLock", call[t])
    BY <1>1, <1>3, ThreadGoes DEF Locations
  <2>2. ThreadRight(t, "removeLock", call[t]) /\ KeepsRemoving(t, "removeLock", call[t])
    BY <1>1
       DEF ThreadRight, InPlace, KeyKnown, PlainCall, PlainFound, KeepsRemoving, Retrieving, HasPool, Removing
  <2> QED
    BY <1>2, <2>1, <2>2, ThreadOnly
<1>4. CASE poolMap[hashCode(parser[call[t].pool])] = None /\ AfterRemove(t)
  <2>1. ~Plain
    <3>1. Plain => call[t].op = "close" /\ poolMap[hashCode(parser[call[t].pool])] = call[t].pool
      BY <1>1, NoneAssumption DEF ThreadRight, InPlace, PlainCall, PlainFound, Removing, HasPool, OpNames
    <3>2. call[t].pool # None
      BY <1>1, NoneAssumption DEF ThreadRight, KeyKnown, HasPool
    <3> QED
      BY <1>4, <3>1, <3>2
  <2>2. CASE call[t].op = "close"
    <3>1. Moved(t, "out", NoCall) /\ ThreadRight(t, "out", NoCall)
      BY <1>1, <1>4, <2>2, ThreadLeaves, OutsideIsRight DEF AfterRemove
    <3> QED
      BY <1>2, <2>1, <3>1, ThreadOnly DEF KeepsRemoving
  <2>3. CASE call[t].op # "close"
    <3>1. Moved(t, "each", call[t])
      BY <1>1, <1>4, <2>3, ThreadGoes DEF AfterRemove, Locations
    <3>2. ThreadRight(t, "each", call[t])
      BY <1>1, <2>1, <2>3 DEF ThreadRight, InPlace, KeyKnown, Retrieving, HasPool, Removing
    <3> QED
      BY <1>2, <2>1, <3>1, <3>2, ThreadOnly DEF KeepsRemoving
  <2> QED
    BY <2>2, <2>3
<1> QED
  BY <1>3, <1>4 DEF RemoveFind

(* Pools::close takes the next pool of its list.                                *)
LEMMA CloseNextStep ==
  ASSUME IInv, NEW t \in Threads, CloseNext(t), program' = program
  PROVE  IInv'
<1>1. TypeOK /\ call[t] \in Calls /\ pc[t] = "each" /\ ThreadRight(t, "each", call[t])
  BY DEF IInv, TypeOK, CloseNext
<1>2. UNCHANGED <<urlParser, registryVars, poolVars, program>>
  BY DEF CloseNext
<1>3. PICK p \in call[t].todo : call' = [call EXCEPT ![t].pool = p, ![t].todo = @ \ {p}]
  BY DEF CloseNext
<1>4. p \in PoolIds /\ poolState[p] # "none" /\ ~Plain
  BY <1>1, <1>3, NoneAssumption DEF Calls, ThreadRight, KeyKnown, InPlace, PlainCall, OpNames
<1>5. PICK c \in Calls :
        /\ c = [call[t] EXCEPT !.pool = p, !.todo = call[t].todo \ {p}]
        /\ c.op = call[t].op /\ c.arg = call[t].arg /\ c.pool = p /\ c.todo = call[t].todo \ {p}
  BY <1>1, <1>4, CallFields, ZenonT(30)
<1>6. Moved(t, "closing", c)
  <2>1. call' = [call EXCEPT ![t] = c] /\ pc' = [pc EXCEPT ![t] = "closing"] /\ "closing" \in Locations
    BY <1>1, <1>3, <1>5 DEF CloseNext, Go, Locations, TypeOK, Calls
  <2> QED
    BY <1>1, <2>1, ThreadMoves
<1>7. ThreadRight(t, "closing", c) /\ KeepsRemoving(t, "closing", c)
  BY <1>1, <1>4, <1>5 DEF ThreadRight, InPlace, KeyKnown, KeepsRemoving, Retrieving, HasPool, Removing
<1> QED
  BY <1>2, <1>6, <1>7, ThreadOnly

-----------------------------------------------------------------------------
(* Steps that change the registry, the pools or the parsers                     *)

\* what a step may do with the map, as far as the other threads are concerned
Others(t) == \A x \in Threads : x # t => ThreadRight(x, pc[x], call[x])'

(* Nobody but the holder creates a pool or closes all of them.                  *)
LEMMA LockHolder ==
  ASSUME IInv, NEW x \in Threads, mapLock # x
  PROVE  pc[x] \notin {"create", "closing", "each"} /\ call[x].op \notin {"closeAll", "closeName"}
BY DEF IInv, ThreadRight, InPlace

(* An application that closes everything, or asks as another user, is not plain.*)
LEMMA NotPlain ==
  ASSUME IInv, NEW t \in Threads
  PROVE  /\ \A op, s : <<op, s>> \in program[t] /\ op \notin {"get", "close"} => ~Plain
         /\ call[t].op \in {"closeAll", "closeName", "getAs"} => ~Plain
<1>1. \A op, s : <<op, s>> \in program[t] /\ op \notin {"get", "close"} => ~Plain
  BY DEF Plain
<1>2. call[t].op \in {"closeAll", "closeName", "getAs"} => ~Plain
  BY NoneAssumption DEF IInv, ThreadRight, PlainCall, OpNames
<1> QED
  BY <1>1, <1>2

(* A plain application closes data sources from one thread.                     *)
LEMMA OneCloser ==
  ASSUME IInv, Plain, NEW t \in Threads, NEW x \in Threads,
         call[t].op = "close", call[x].op = "close"
  PROVE  t = x
<1> DEFINE C == {y \in Threads : \E s \in Sources : <<"close", s>> \in program[y]}
<1>1. t \in C /\ x \in C
  BY DEF IInv, ThreadRight, PlainCall
<1>2. IsFiniteSet(C) /\ Cardinality(C) \in Nat /\ Cardinality(C) <= 1
  BY ThreadsAssumption, FS_Subset, FS_CardinalityType DEF Plain
<1> HIDE DEF C
<1>3. IsFiniteSet(C \ {t}) /\ Cardinality(C \ {t}) = Cardinality(C) - 1
  BY <1>1, <1>2, FS_RemoveElement
<1>4. C \ {t} = {}
  <2> DEFINE D == C \ {t}
  <2>1. IsFiniteSet(D) /\ Cardinality(D) \in Nat
    BY <1>3, FS_CardinalityType
  <2>2. Cardinality(D) = 0
    BY <1>2, <1>3, <2>1
  <2> HIDE DEF D
  <2>3. D = {}
    BY <2>1, <2>2, FS_EmptySet
  <2> QED
    BY <2>3 DEF D
<1> QED
  BY <1>1, <1>4

(* What remains to be shown of a step of t when the application is not plain.   *)
LEMMA WildStep ==
  ASSUME ~Plain, program' = program, NEW t \in Threads,
         TypeOK', PoolsKnown', RegisteredIsScheduled',
         \A x \in Threads : InPlace(x, pc[x], call[x])' /\ KeyKnown(pc[x], call[x])'
  PROVE  IInv'
<1>1. ~Plain'
  BY DEF Plain
<1> QED
  BY <1>1 DEF IInv, ThreadRight, PlainMap, OpenPoolIsRegistered, ClosedPoolLeaves

(* retrievePool looks again with the lock, and keeps it to create a pool.       *)
LEMMA LookupStep ==
  ASSUME IInv, NEW t \in Threads, Lookup(t), program' = program
  PROVE  IInv'
<1> DEFINE u == hashCode(call[t].arg)
<1>1. TypeOK /\ call[t] \in Calls /\ pc[t] = "lock" /\ ThreadRight(t, "lock", call[t]) /\ mapLock = None
  BY DEF IInv, TypeOK, Lookup, LockedFind
<1>2. u \in Users
  BY <1>1 DEF ThreadRight, KeyKnown
<1>3. UNCHANGED <<urlParser, poolMap, scheduled, poolState, parser, opened, program>>
      /\ call' = [call EXCEPT ![t].pool = poolMap[u]]
  BY DEF Lookup, poolVars
<1>4. PICK p \in PoolIds \cup {None} :
        p = poolMap[u] /\ (p # None => p \in PoolIds /\ poolState[p] # "none" /\ (Plain => hashCode(parser[p]) = u))
  BY <1>1, <1>2 DEF IInv, TypeOK, PoolsKnown, PlainMap
<1>5. PICK c \in Calls :
        /\ c = [call[t] EXCEPT !.pool = p]
        /\ c.op = call[t].op /\ c.arg = call[t].arg /\ c.pool = p /\ c.todo = call[t].todo
  BY <1>1, CallFields, Zenon
<1>6. CASE p # None
  <2>1. Go(t, "deref") /\ UNCHANGED <<mapLock, poolExecutor>>
    BY <1>4, <1>6 DEF Lookup, LockedFind
  <2>2. Moved(t, "deref", c)
    BY <1>1, <1>3, <1>4, <1>5, <2>1, ThreadGoes DEF Locations
  <2>3. ThreadRight(t, "deref", c) /\ KeepsRemoving(t, "deref", c)
    BY <1>1, <1>2, <1>4, <1>5, <1>6
       DEF ThreadRight, InPlace, KeyKnown, PlainCall, PlainFound, KeepsRemoving, Retrieving, HasPool, Removing
  <2> QED
    BY <1>3, <2>1, <2>2, <2>3, ThreadOnly DEF registryVars, poolVars
<1>7. CASE p = None
  <2>1. Go(t, "create") /\ mapLock' = t /\ poolExecutor' = TRUE
    BY <1>4, <1>7 DEF Lookup, LockedFind
  <2>2. Moved(t, "create", c)
    BY <1>1, <1>3, <1>4, <1>5, <2>1, ThreadGoes DEF Locations
  <2>3. TypeOK'
    BY <1>1, <1>3, <2>1, <2>2 DEF TypeOK, Moved
  <2>4. ThreadRight(t, pc[t], call[t])'
    <3>1. pc'[t] = "create" /\ call'[t] = c
      BY <2>2 DEF Moved
    <3>3. InPlace(t, pc[t], call[t])' /\ KeyKnown(pc[t], call[t])'
      BY <1>1, <1>2, <1>3, <1>5, <2>1, <3>1
         DEF ThreadRight, InPlace, KeyKnown, Retrieving, HasPool, Removing, hashCode
    <3>4. Plain => PlainCall(t, pc[t], call[t])'
      BY <1>1, <1>3, <1>5, <3>1 DEF ThreadRight, PlainCall, Retrieving
    <3>5. Plain => PlainFound(pc[t], call[t])'
      BY <1>3, <1>4, <1>5, <1>7, <3>1 DEF PlainFound, HasPool, hashCode
    <3>6. Plain' = Plain
      BY <1>3 DEF Plain
    <3> QED
      BY <3>3, <3>4, <3>5, <3>6 DEF ThreadRight
  <2>5. Others(t)
    <3> SUFFICES ASSUME NEW x \in Threads, x # t PROVE ThreadRight(x, pc[x], call[x])'
      BY DEF Others
    <3>1. pc'[x] = pc[x] /\ call'[x] = call[x] /\ ThreadRight(x, pc[x], call[x])
      BY <2>2 DEF IInv, Moved
    <3>2. pc[x] \notin {"create", "closing", "each"} /\ call[x].op \notin {"closeAll", "closeName"}
      BY <1>1, NoneAssumption, LockHolder
    <3> QED
      BY <1>3, <2>1, <3>1, <3>2 DEF ThreadRight, InPlace, KeyKnown, PlainCall, PlainFound, hashCode, Plain
  <2>6. (PoolsKnown /\ RegisteredIsScheduled /\ PlainMap /\ OpenPoolIsRegistered)'
    BY <1>3, <2>1 DEF IInv, PoolsKnown, RegisteredIsScheduled, Registered, PlainMap, OpenPoolIsRegistered,
                      hashCode, Plain
  <2>7. ClosedPoolLeaves'
    <3> SUFFICES ASSUME Plain, NEW q \in Registered, poolState[q] = "CLOSING"
                 PROVE  \E x \in Threads : call'[x].pool = q /\ pc'[x] \in {"removeFind", "removeLock", "each"}
      BY <1>3 DEF ClosedPoolLeaves, Plain, Registered
    <3>1. PICK x \in Threads : call[x].pool = q /\ pc[x] \in {"removeFind", "removeLock", "each"}
      BY DEF IInv, ClosedPoolLeaves
    <3> QED
      BY <1>1, <2>2, <3>1 DEF Moved
  <2> QED
    BY <2>3, <2>4, <2>5, <2>6, <2>7 DEF IInv, Others
<1> QED
  BY <1>6, <1>7

(* Pool::close marks the pool, and then removes it.                             *)
LEMMA BeginCloseStep ==
  ASSUME IInv, NEW t \in Threads, BeginClose(t), program' = program
  PROVE  IInv'
<1>1. /\ TypeOK /\ call[t] \in Calls /\ pc[t] \in {"use", "closing"} /\ ThreadRight(t, pc[t], call[t])
      /\ pc[t] = "use" => call[t].op = "close"
  BY DEF IInv, TypeOK, BeginClose
<1>2. PICK p \in PoolIds : p = call[t].pool
  BY <1>1 DEF ThreadRight, KeyKnown, HasPool
<1>3. /\ UNCHANGED <<urlParser, poolMap, mapLock, poolExecutor, scheduled, parser, opened, program, call>>
      /\ poolState' = [poolState EXCEPT ![p] = "CLOSING"] /\ Go(t, "removeFind")
  BY <1>2 DEF BeginClose, registryVars
<1>4. Moved(t, "removeFind", call[t])
  BY <1>1, <1>3, ThreadGoes DEF Locations
<1>5. TypeOK'
  BY <1>1, <1>3, <1>4 DEF TypeOK, Moved
<1>6. /\ poolState'[p] = "CLOSING" /\ poolState[p] # "none"
      /\ \A q \in PoolIds : q # p => poolState'[q] = poolState[q]
      /\ \A q \in PoolIds : poolState'[q] = "none" <=> poolState[q] = "none"
      /\ \A q \in PoolIds : poolState[q] = "CLOSING" => poolState'[q] = "CLOSING"
  BY <1>1, <1>2, <1>3 DEF TypeOK, ThreadRight, KeyKnown, HasPool
<1>7. ThreadRight(t, pc[t], call[t])'
  <2>1. pc'[t] = "removeFind" /\ call'[t] = call[t] /\ call[t].todo \subseteq PoolIds
    BY <1>1, <1>4 DEF Moved, Calls
  <2> QED
    BY <1>1, <1>2, <1>3, <1>6, <2>1
       DEF ThreadRight, InPlace, KeyKnown, PlainCall, PlainFound, Retrieving, HasPool, Removing, hashCode, Plain
<1>8. Others(t)
  <2> SUFFICES ASSUME NEW x \in Threads, x # t PROVE ThreadRight(x, pc[x], call[x])'
    BY DEF Others
  <2>1. pc'[x] = pc[x] /\ call'[x] = call[x] /\ ThreadRight(x, pc[x], call[x]) /\ call[x].todo \subseteq PoolIds
    BY <1>1, <1>4 DEF IInv, Moved, TypeOK, Calls
  <2>2. InPlace(x, pc[x], call[x])' /\ (Plain' = Plain)
    BY <1>3, <2>1 DEF ThreadRight, InPlace, Plain
  <2>3. KeyKnown(pc[x], call[x])'
    BY <1>3, <1>6, <2>1 DEF ThreadRight, KeyKnown, HasPool, Removing, hashCode
  <2>4. Plain => PlainCall(x, pc[x], call[x])' /\ PlainFound(pc[x], call[x])'
    BY <1>3, <2>1 DEF ThreadRight, PlainCall, PlainFound, hashCode
  <2> QED
    BY <2>2, <2>3, <2>4 DEF ThreadRight
<1>9. (PoolsKnown /\ RegisteredIsScheduled /\ PlainMap /\ OpenPoolIsRegistered)'
  BY <1>1, <1>3, <1>6 DEF IInv, TypeOK, PoolsKnown, RegisteredIsScheduled, Registered, PlainMap,
                          OpenPoolIsRegistered, hashCode, Plain
<1>10. ClosedPoolLeaves'
  <2> SUFFICES ASSUME Plain, NEW q \in Registered, poolState'[q] = "CLOSING"
               PROVE  \E x \in Threads : call'[x].pool = q /\ pc'[x] \in {"removeFind", "removeLock", "each"}
    BY <1>3 DEF ClosedPoolLeaves, Plain, Registered
  <2>1. CASE q = p
    BY <1>2, <1>4, <2>1 DEF Moved
  <2>2. CASE q # p
    <3>1. poolState[q] = "CLOSING"
      BY <1>1, <1>6, <2>2 DEF Registered, TypeOK
    <3>2. PICK x \in Threads : call[x].pool = q /\ pc[x] \in {"removeFind", "removeLock", "each"}
      BY <3>1 DEF IInv, ClosedPoolLeaves
    <3> QED
      BY <1>1, <1>4, <3>2 DEF Moved
  <2> QED
    BY <2>1, <2>2
<1> QED
  BY <1>5, <1>7, <1>8, <1>9, <1>10 DEF IInv, Others

(* The pool is made and registered, or its first connection throws.             *)
LEMMA CreatePoolStep ==
  ASSUME IInv, NEW t \in Threads, CreatePool(t), program' = program
  PROVE  IInv'
<1>1. /\ TypeOK /\ call[t] \in Calls /\ pc[t] = "create" /\ ThreadRight(t, "create", call[t])
      /\ mapLock' = None /\ UNCHANGED <<urlParser, poolExecutor, program>>
  BY DEF IInv, TypeOK, CreatePool
<1>2. mapLock = t /\ poolExecutor
  BY <1>1 DEF ThreadRight, InPlace
<1>3. ASSUME NEW x \in Threads, x # t
      PROVE  pc[x] \notin {"create", "closing", "each"} /\ call[x].op \notin {"closeAll", "closeName"}
  BY <1>2, <1>3, LockHolder
<1>4. CASE Leave(t) /\ UNCHANGED <<poolMap, scheduled, poolVars>>
  <2>1. Moved(t, "out", NoCall) /\ UNCHANGED <<poolMap, scheduled, poolState, parser, opened>>
    BY <1>1, <1>4, ThreadLeaves DEF poolVars
  <2>2. TypeOK'
    BY <1>1, <2>1 DEF TypeOK, Moved
  <2>3. ThreadRight(t, pc[t], call[t])'
    BY <2>1, NoneAssumption
       DEF Moved, ThreadRight, InPlace, KeyKnown, PlainCall, PlainFound, NoCall, Own, OpNames, Retrieving, HasPool, Removing
  <2>4. Others(t)
    <3> SUFFICES ASSUME NEW x \in Threads, x # t PROVE ThreadRight(x, pc[x], call[x])'
      BY DEF Others
    <3>1. pc'[x] = pc[x] /\ call'[x] = call[x] /\ ThreadRight(x, pc[x], call[x])
      BY <2>1 DEF IInv, Moved
    <3> QED
      BY <1>1, <1>3, <2>1, <3>1 DEF ThreadRight, InPlace, KeyKnown, PlainCall, PlainFound, hashCode, Plain
  <2>5. (PoolsKnown /\ RegisteredIsScheduled /\ PlainMap /\ OpenPoolIsRegistered)'
    BY <1>1, <2>1 DEF IInv, PoolsKnown, RegisteredIsScheduled, Registered, PlainMap, OpenPoolIsRegistered,
                      hashCode, Plain
  <2>6. ClosedPoolLeaves'
    <3> SUFFICES ASSUME Plain, NEW q \in Registered, poolState[q] = "CLOSING"
                 PROVE  \E x \in Threads : call'[x].pool = q /\ pc'[x] \in {"removeFind", "removeLock", "each"}
      BY <1>1, <2>1 DEF ClosedPoolLeaves, Plain, Registered
    <3>1. PICK x \in Threads : call[x].pool = q /\ pc[x] \in {"removeFind", "removeLock", "each"}
      BY DEF IInv, ClosedPoolLeaves
    <3> QED
      BY <1>1, <2>1, <3>1 DEF Moved
  <2> QED
    BY <2>2, <2>3, <2>4, <2>5, <2>6 DEF IInv, Others
<1>5. ASSUME NEW p \in PoolIds, NEW u \in Users, u = hashCode(call[t].arg), poolState[p] = "none",
             poolState' = [poolState EXCEPT ![p] = "OK"], parser' = [parser EXCEPT ![p] = call[t].arg],
             opened' = [opened EXCEPT ![p] = {u}], scheduled' = scheduled \cup {p},
             poolMap' = [poolMap EXCEPT ![u] = IF poolMap[u] = None THEN p ELSE poolMap[u]],
             call' = [call EXCEPT ![t].pool = p], Go(t, "use")
      PROVE  IInv'
  <2>1. PICK c \in Calls :
          /\ c = [call[t] EXCEPT !.pool = p]
          /\ c.op = call[t].op /\ c.arg = call[t].arg /\ c.pool = p /\ c.todo = call[t].todo
    BY <1>1, CallFields, Zenon
  <2>2. Moved(t, "use", c)
    BY <1>1, <1>5, <2>1, ThreadGoes DEF Locations
  <2>3. /\ poolState'[p] = "OK" /\ \A q \in PoolIds : q # p => poolState'[q] = poolState[q]
        /\ parser'[p] = call[t].arg /\ \A q \in PoolIds : q # p => parser'[q] = parser[q]
        /\ poolMap'[u] = (IF poolMap[u] = None THEN p ELSE poolMap[u])
        /\ \A v \in Users : v # u => poolMap'[v] = poolMap[v]
        /\ poolMap' \in [Users -> PoolIds \cup {None}] /\ p # None
    BY <1>1, <1>5, NoneAssumption DEF TypeOK
  <2>4. TypeOK'
    <3>1. call[t].arg \in Parsers
      BY <1>1 DEF Calls
    <3> QED
      BY <1>1, <1>5, <2>2, <2>3, <3>1 DEF TypeOK, Moved
  <2>5. Plain => poolMap[u] = None /\ call[t].arg.src # None
    BY <1>1, <1>5 DEF ThreadRight, PlainFound, PlainCall, Retrieving
  <2>6. /\ \A v \in Users : poolMap'[v] \in {None, p, poolMap[v]}
        /\ \A v \in Users : poolMap'[v] = p => v = u \/ poolMap[v] = p
        /\ \A v \in Users : poolMap[v] # None => poolMap'[v] = poolMap[v] /\ poolMap[v] \in PoolIds \ {p}
    BY <1>1, <1>5, <2>3 DEF IInv, PoolsKnown, TypeOK
  <2>7. ThreadRight(t, pc[t], call[t])'
    <3>1. pc'[t] = "use" /\ call'[t] = c /\ call[t].todo \subseteq PoolIds
      BY <1>1, <2>2 DEF Moved, Calls
    <3>2. InPlace(t, pc[t], call[t])'
      BY <1>1, <2>1, <3>1, LockHolder, NotPlain DEF ThreadRight, InPlace, Retrieving, Removing
    <3>3. KeyKnown(pc[t], call[t])'
      <4>1. \A q \in call[t].todo : poolState[q] # "none" /\ q \in PoolIds
        BY <1>1, <3>1 DEF ThreadRight, KeyKnown
      <4>2. \A q \in call[t].todo : poolState'[q] # "none"
        BY <1>5, <2>3, <4>1
      <4> QED
        BY <2>1, <2>3, <3>1, <4>2 DEF KeyKnown, HasPool, Removing
    <3>4. Plain => PlainCall(t, pc[t], call[t])'
      BY <1>1, <2>1, <3>1 DEF ThreadRight, PlainCall, Retrieving
    <3>5. Plain => PlainFound(pc[t], call[t])'
      <4>1. hashCode(parser[call[t].pool])' = u
        <5>1. parser'[call'[t].pool] = call[t].arg /\ urlParser' = urlParser
          BY <1>1, <2>1, <2>3, <3>1
        <5> QED
          BY ONLY <1>5, <5>1 DEF hashCode
      <4> QED
        BY <2>1, <2>3, <2>5, <3>1, <4>1 DEF PlainFound, HasPool
    <3> QED
      BY <1>1, <3>2, <3>3, <3>4, <3>5 DEF ThreadRight, Plain
  <2>8. Others(t)
    <3> SUFFICES ASSUME NEW x \in Threads, x # t PROVE ThreadRight(x, pc[x], call[x])'
      BY DEF Others
    <3>1. pc'[x] = pc[x] /\ call'[x] = call[x] /\ ThreadRight(x, pc[x], call[x]) /\ call[x].todo \subseteq PoolIds
      BY <1>1, <2>2 DEF IInv, Moved, TypeOK, Calls
    <3>2. InPlace(x, pc[x], call[x])'
      BY <1>1, <1>3, <3>1 DEF ThreadRight, InPlace
    <3>3. KeyKnown(pc[x], call[x])'
      BY <1>1, <1>5, <2>3, <3>1, SMTT(30) DEF ThreadRight, KeyKnown, HasPool, Removing, hashCode
    <3>4. Plain => PlainCall(x, pc[x], call[x])'
      BY <1>1, <3>1 DEF ThreadRight, PlainCall
    <3>5. Plain => PlainFound(pc[x], call[x])'
      <4> SUFFICES ASSUME Plain, call[x].op = "close", pc[x] \in HasPool
                   PROVE  poolMap'[hashCode(parser[call[x].pool])'] = call[x].pool
        BY <1>3, <3>1 DEF PlainFound
      <4>1. PICK q \in PoolIds : q = call[x].pool /\ q # p /\ poolMap[hashCode(parser[q])] = q /\ hashCode(parser[q]) \in Users
        BY <1>5, <3>1 DEF ThreadRight, KeyKnown, PlainFound, IInv, PoolsKnown
      <4>2. hashCode(parser[call[x].pool])' = hashCode(parser[q])
        BY <1>1, <2>3, <3>1, <4>1 DEF hashCode
      <4> QED
        BY <2>6, <4>1, <4>2, NoneAssumption
    <3> QED
      BY <1>1, <3>2, <3>3, <3>4, <3>5 DEF ThreadRight, Plain
  <2>9. PoolsKnown'
    <3>1. ASSUME NEW v \in Users, poolMap'[v] # None PROVE poolState'[poolMap'[v]] # "none"
      <4>1. CASE poolMap'[v] = p
        BY <2>3, <4>1
      <4>2. CASE poolMap'[v] # p
        BY <2>3, <2>6, <3>1, <4>2 DEF IInv, PoolsKnown
      <4> QED
        BY <4>1, <4>2
    <3>2. ASSUME NEW q \in PoolIds, poolState'[q] # "none" PROVE hashCode(parser[q])' \in Users
      <4>1. CASE q = p
        BY <1>1, <1>5, <2>3, <4>1 DEF hashCode
      <4>2. CASE q # p
        BY <1>1, <2>3, <3>2, <4>2 DEF hashCode, IInv, PoolsKnown
      <4> QED
        BY <4>1, <4>2
    <3> QED
      BY <3>1, <3>2 DEF PoolsKnown
  <2>10. RegisteredIsScheduled'
    BY <1>1, <1>2, <1>5, <2>6 DEF IInv, RegisteredIsScheduled, Registered
  <2>11. PlainMap' /\ OpenPoolIsRegistered'
    <3> SUFFICES ASSUME Plain
                 PROVE  /\ \A q \in PoolIds : poolState'[q] # "none" => parser'[q].src # None
                        /\ \A v \in Users : poolMap'[v] # None => hashCode(parser[poolMap[v]])' = v
                        /\ \A q \in PoolIds : poolState'[q] = "OK" => poolMap'[hashCode(parser[q])'] = q
      BY <1>1 DEF PlainMap, OpenPoolIsRegistered, Plain
    <3>1. ASSUME NEW q \in PoolIds PROVE hashCode(parser[q])' = IF q = p THEN u ELSE hashCode(parser[q])
      BY <1>1, <1>5, <2>3 DEF hashCode
    <3>2. \A q \in PoolIds : poolState'[q] # "none" => parser'[q].src # None
      BY <2>3, <2>5 DEF IInv, PlainMap
    <3>3. ASSUME NEW v \in Users, poolMap'[v] # None PROVE hashCode(parser[poolMap[v]])' = v
      <4>1. CASE poolMap[v] # None
        <5>1. PICK q \in PoolIds : q = poolMap[v] /\ q # p /\ poolMap'[v] = q
          BY <2>6, <4>1
        <5>2. hashCode(parser[poolMap[v]])' = hashCode(parser[q])'
          BY <5>1 DEF hashCode
        <5> QED
          BY <3>1, <4>1, <5>1, <5>2 DEF IInv, PlainMap
      <4>2. CASE poolMap[v] = None
        <5>1. v = u /\ poolMap'[v] = p
          BY <2>3, <2>6, <3>3, <4>2
        <5>2. hashCode(parser[poolMap[v]])' = hashCode(parser[p])'
          BY <5>1 DEF hashCode
        <5> QED
          BY <3>1, <5>1, <5>2
      <4> QED
        BY <4>1, <4>2
    <3>4. ASSUME NEW q \in PoolIds, poolState'[q] = "OK" PROVE poolMap'[hashCode(parser[q])'] = q
      <4>1. CASE q = p
        BY <2>3, <2>5, <3>1, <4>1
      <4>2. CASE q # p
        <5>1. poolState[q] = "OK" /\ q # None
          BY <2>3, <3>4, <4>2, NoneAssumption
        <5>2. poolMap[hashCode(parser[q])] = q /\ hashCode(parser[q]) \in Users
          BY <5>1 DEF IInv, OpenPoolIsRegistered, PoolsKnown
        <5> QED
          BY <2>6, <3>1, <4>2, <5>1, <5>2
      <4> QED
        BY <4>1, <4>2
    <3> QED
      BY <3>2, <3>3, <3>4
  <2>12. ClosedPoolLeaves'
    <3> SUFFICES ASSUME Plain, NEW v \in Users, NEW q, q = poolMap'[v], q # None, poolState'[q] = "CLOSING"
                 PROVE  \E x \in Threads : call'[x].pool = q /\ pc'[x] \in {"removeFind", "removeLock", "each"}
      BY <1>1 DEF ClosedPoolLeaves, Plain, Registered
    <3>1. q # p /\ q = poolMap[v] /\ q \in PoolIds
      BY <1>1, <2>3, <2>6 DEF TypeOK
    <3>2. q \in Registered /\ poolState[q] = "CLOSING"
      BY <2>3, <3>1 DEF Registered
    <3>3. PICK x \in Threads : call[x].pool = q /\ pc[x] \in {"removeFind", "removeLock", "each"}
      BY <3>2 DEF IInv, ClosedPoolLeaves
    <3> QED
      BY <1>1, <2>2, <3>3 DEF Moved
  <2> QED
    BY <2>4, <2>7, <2>8, <2>9, <2>10, <2>11, <2>12 DEF IInv, Others
<1>6. hashCode(call[t].arg) \in Users
  BY <1>1 DEF ThreadRight, KeyKnown
<1> QED
  BY <1>4, <1>5, <1>6 DEF CreatePool

(* Pools::remove erases the key of its pool, with the lock.                     *)
LEMMA RemoveLockedStep ==
  ASSUME IInv, NEW t \in Threads, RemoveLocked(t), program' = program
  PROVE  IInv'
<1>1. /\ TypeOK /\ call[t] \in Calls /\ pc[t] = "removeLock" /\ ThreadRight(t, "removeLock", call[t])
      /\ mapLock = None /\ UNCHANGED <<urlParser, mapLock, poolState, parser, opened, program>>
  BY DEF IInv, TypeOK, RemoveLocked, poolVars
<1>2. PICK p \in PoolIds : p = call[t].pool /\ poolState[p] = "CLOSING"
  BY <1>1 DEF ThreadRight, KeyKnown, HasPool, Removing
<1>3. ASSUME NEW x \in Threads
      PROVE  pc[x] \notin {"create", "closing", "each"} /\ call[x].op \notin {"closeAll", "closeName"}
  BY <1>1, LockHolder, NoneAssumption
<1>4. call[t].op = "close"
  BY <1>1, <1>3 DEF ThreadRight, InPlace, Removing
<1>5. Moved(t, "out", NoCall)
  BY <1>1, <1>4, ThreadLeaves DEF RemoveLocked, AfterRemove
<1>6. PICK k \in Users : k = hashCode(parser[p])
  BY <1>2 DEF IInv, PoolsKnown
<1>7. /\ \A v \in Users : v # k => poolMap'[v] = poolMap[v]
      /\ poolMap'[k] = None /\ poolMap' \in [Users -> PoolIds \cup {None}]
  BY <1>1, <1>2, <1>6 DEF RemoveLocked, RemovedKey, TypeOK
<1>8. /\ poolExecutor' \in BOOLEAN /\ scheduled' \subseteq PoolIds
      /\ (\A v \in Users : poolMap'[v] = None) \/ UNCHANGED <<poolExecutor, scheduled>>
  BY <1>1 DEF RemoveLocked, AfterErase, TypeOK
<1>9. Plain => poolMap[k] = p
  BY <1>1, <1>2, <1>4, <1>6 DEF ThreadRight, PlainFound, HasPool
<1>10. TypeOK'
  BY <1>1, <1>5, <1>7, <1>8 DEF TypeOK, Moved
<1>11. ThreadRight(t, pc[t], call[t])'
  BY <1>5, NoneAssumption
     DEF Moved, ThreadRight, InPlace, KeyKnown, PlainCall, PlainFound, NoCall, Own, OpNames, Retrieving, HasPool, Removing
<1>12. Others(t)
  <2> SUFFICES ASSUME NEW x \in Threads, x # t PROVE ThreadRight(x, pc[x], call[x])'
    BY DEF Others
  <2>1. pc'[x] = pc[x] /\ call'[x] = call[x] /\ ThreadRight(x, pc[x], call[x])
    BY <1>5 DEF IInv, Moved
  <2>2. Plain => call[x].op # "close"
    BY <1>4, OneCloser
  <2>3. InPlace(x, pc[x], call[x])' /\ KeyKnown(pc[x], call[x])'
    BY <1>1, <1>3, <2>1 DEF ThreadRight, InPlace, KeyKnown, hashCode
  <2>4. Plain => PlainCall(x, pc[x], call[x])' /\ PlainFound(pc[x], call[x])'
    BY <1>1, <1>3, <2>1, <2>2 DEF ThreadRight, PlainCall, PlainFound
  <2> QED
    BY <1>1, <2>3, <2>4 DEF ThreadRight, Plain
<1>13. PoolsKnown' /\ RegisteredIsScheduled'
  BY <1>1, <1>7, <1>8 DEF IInv, PoolsKnown, RegisteredIsScheduled, Registered, hashCode
<1>14. PlainMap'
  BY <1>1, <1>7 DEF IInv, PlainMap, Plain, hashCode
<1>15. OpenPoolIsRegistered'
  <2> SUFFICES ASSUME Plain, NEW q \in PoolIds, poolState[q] = "OK" PROVE poolMap'[hashCode(parser[q])] = q
    BY <1>1 DEF OpenPoolIsRegistered, Plain, hashCode
  <2>1. poolMap[hashCode(parser[q])] = q /\ hashCode(parser[q]) \in Users /\ q # p
    BY <1>2 DEF IInv, OpenPoolIsRegistered, PoolsKnown
  <2> QED
    BY <1>7, <1>9, <2>1
<1>16. ClosedPoolLeaves'
  <2> SUFFICES ASSUME Plain, NEW v \in Users, NEW q, q = poolMap'[v], q # None, poolState[q] = "CLOSING"
               PROVE  \E x \in Threads : call'[x].pool = q /\ pc'[x] \in {"removeFind", "removeLock", "each"}
    BY <1>1 DEF ClosedPoolLeaves, Plain, Registered
  <2>1. v # k /\ q = poolMap[v] /\ q \in Registered
    BY <1>7 DEF Registered
  <2>2. q # p
    BY <1>6, <2>1 DEF IInv, PlainMap
  <2>3. PICK x \in Threads : call[x].pool = q /\ pc[x] \in {"removeFind", "removeLock", "each"}
    BY <2>1 DEF IInv, ClosedPoolLeaves
  <2> QED
    BY <1>2, <1>5, <2>2, <2>3 DEF Moved
<1> QED
  BY <1>10, <1>11, <1>12, <1>13, <1>14, <1>15, <1>16 DEF IInv, Others

(* Pools::close begins: it has the lock, and the pools that are registered.     *)
LEMMA ClosePoolsStep ==
  ASSUME IInv, NEW t \in Threads, NEW op \in {"closeAll", "closeName"}, ClosePools(t, op), program' = program
  PROVE  IInv'
<1>1. /\ TypeOK /\ mapLock = None /\ mapLock' = t
      /\ UNCHANGED <<urlParser, poolMap, poolExecutor, scheduled, poolState, parser, opened, program>>
  BY DEF IInv, ClosePools, poolVars
<1>2. PICK s \in Sources : <<op, s>> \in program[t]
  BY DEF ClosePools, Calling
<1>3. ~Plain
  BY <1>2, NotPlain
<1>4. PICK S \in SUBSET Registered : call' = [call EXCEPT ![t] = [NoCall EXCEPT !.op = op, !.todo = S]]
  BY DEF ClosePools
<1> DEFINE c == [NoCall EXCEPT !.op = op, !.todo = S]
<1>5. S \subseteq PoolIds /\ \A q \in S : poolState[q] # "none"
  BY <1>1 DEF IInv, TypeOK, PoolsKnown, Registered
<1>6. c \in Calls /\ c.op = op /\ c.todo = S
  BY <1>5 DEF NoCall, Calls, Parsers, Own, OpNames
<1>7. Moved(t, "each", c)
  <2>1. pc' = [pc EXCEPT ![t] = "each"] /\ call' = [call EXCEPT ![t] = c] /\ "each" \in Locations
    BY <1>4 DEF ClosePools, Go, Locations
  <2> HIDE DEF c
  <2> QED
    BY <1>1, <1>6, <2>1, ThreadMoves
<1> HIDE DEF c
<1>8. TypeOK'
  BY <1>1, <1>7 DEF TypeOK, Moved
<1>9. PoolsKnown' /\ RegisteredIsScheduled'
  BY <1>1 DEF IInv, PoolsKnown, RegisteredIsScheduled, Registered, hashCode
<1>10. ASSUME NEW x \in Threads PROVE InPlace(x, pc[x], call[x])' /\ KeyKnown(pc[x], call[x])'
  <2>1. CASE x = t
    BY <1>1, <1>5, <1>6, <1>7, <2>1 DEF Moved, InPlace, KeyKnown, Retrieving, HasPool, Removing
  <2>2. CASE x # t
    <3>1. pc'[x] = pc[x] /\ call'[x] = call[x] /\ ThreadRight(x, pc[x], call[x])
      BY <1>7, <2>2 DEF IInv, Moved
    <3>2. pc[x] \notin {"create", "closing", "each"} /\ call[x].op \notin {"closeAll", "closeName"}
      BY <1>1, LockHolder, NoneAssumption
    <3> QED
      BY <1>1, <3>1, <3>2 DEF ThreadRight, InPlace, KeyKnown, hashCode
  <2> QED
    BY <2>1, <2>2
<1> QED
  BY <1>3, <1>8, <1>9, <1>10, WildStep

(* Pools::close ends: the map is cleared, or the pool's key removed once more.  *)
LEMMA CloseDoneStep ==
  ASSUME IInv, NEW t \in Threads, CloseDone(t), program' = program
  PROVE  IInv'
<1>1. /\ TypeOK /\ pc[t] = "each" /\ ThreadRight(t, "each", call[t]) /\ mapLock' = None
      /\ UNCHANGED <<urlParser, poolState, parser, opened, program>>
  BY DEF IInv, CloseDone, poolVars
<1>2. mapLock = t /\ ~Plain
  BY <1>1, NotPlain DEF ThreadRight, InPlace
<1>3. Moved(t, "out", NoCall)
  BY <1>1, ThreadLeaves DEF CloseDone
<1>4. /\ poolMap' \in [Users -> PoolIds \cup {None}] /\ poolExecutor' \in BOOLEAN /\ scheduled' \subseteq PoolIds
      /\ \A v \in Users : poolMap'[v] \in {None, poolMap[v]}
      /\ (\A v \in Users : poolMap'[v] = None) \/ UNCHANGED <<poolExecutor, scheduled>>
  BY <1>1 DEF CloseDone, TypeOK
<1>5. TypeOK'
  BY <1>1, <1>3, <1>4 DEF TypeOK, Moved
<1>6. PoolsKnown' /\ RegisteredIsScheduled'
  BY <1>1, <1>4 DEF IInv, PoolsKnown, RegisteredIsScheduled, Registered, hashCode
<1>7. ASSUME NEW x \in Threads PROVE InPlace(x, pc[x], call[x])' /\ KeyKnown(pc[x], call[x])'
  <2>1. CASE x = t
    BY <1>3, <2>1, NoneAssumption DEF Moved, InPlace, KeyKnown, NoCall, Own, OpNames, Retrieving, HasPool, Removing
  <2>2. CASE x # t
    <3>1. pc'[x] = pc[x] /\ call'[x] = call[x] /\ ThreadRight(x, pc[x], call[x])
      BY <1>3, <2>2 DEF IInv, Moved
    <3>2. pc[x] \notin {"create", "closing", "each"} /\ call[x].op \notin {"closeAll", "closeName"}
      BY <1>2, <2>2, LockHolder
    <3> QED
      BY <1>1, <3>1, <3>2 DEF ThreadRight, InPlace, KeyKnown, hashCode
  <2> QED
    BY <2>1, <2>2
<1> QED
  BY <1>2, <1>5, <1>6, <1>7, WildStep

(* getConnection() initializes the parser of its data source, if it is the      *)
(* first; a key that is known stays what it is.                                 *)
LEMMA GetConnectionStep ==
  ASSUME IInv, NEW t \in Threads, NEW s \in Sources, GetConnection(t, s), program' = program
  PROVE  IInv'
<1>1. PICK u \in Users :
        /\ urlParser[s] \in {None, u} /\ urlParser' = [urlParser EXCEPT ![s] = u]
        /\ Retrieve(t, "get", s, Shared(s), None)
        /\ UNCHANGED <<poolMap, mapLock, poolExecutor, scheduled, poolState, parser, opened, program>>
  BY DEF GetConnection, Initialized, registryVars, poolVars
<1>2. TypeOK /\ Shared(s) \in Parsers /\ "get" \in OpNames
  BY DEF IInv, Parsers, Shared, OpNames
<1>3. PICK c \in Calls :
        /\ Moved(t, "find", c) /\ pc[t] = "out" /\ <<"get", s>> \in program[t]
        /\ c.op = "get" /\ c.arg = Shared(s) /\ c.pool = None /\ c.todo = {}
  <2>1. None \in Users \cup {None} /\ Retrieve(t, "get", s, Shared(s), None)
    BY <1>1
  <2> HIDE DEF Shared
  <2> QED
    BY ONLY <1>2, <2>1, ThreadRetrieves, t \in Threads, s \in Sources
<1>4. ASSUME NEW y \in Parsers, hashCode(y) \in Users
      PROVE  (IF y.src = None THEN y.user ELSE urlParser'[y.src]) = hashCode(y)
  <2>1. urlParser \in [Sources -> Users \cup {None}] /\ y.src \in Sources \cup {None}
    BY <1>2 DEF TypeOK, Parsers
  <2> QED
    BY <1>1, <1>4, <2>1, NoneAssumption DEF hashCode
<1>5. TypeOK'
  BY <1>1, <1>2, <1>3 DEF TypeOK, Moved
<1>6. ThreadRight(t, pc[t], call[t])'
  <2>1. pc'[t] = "find" /\ call'[t] = c /\ urlParser'[s] = u /\ c.arg.src = s /\ s # None
    BY <1>1, <1>2, <1>3, NoneAssumption DEF Moved, TypeOK, Shared
  <2> QED
    BY <1>3, <2>1 DEF ThreadRight, InPlace, KeyKnown, PlainCall, PlainFound, Retrieving, HasPool, Removing, hashCode
<1>7. Others(t)
  <2> SUFFICES ASSUME NEW x \in Threads, x # t PROVE ThreadRight(x, pc[x], call[x])'
    BY DEF Others
  <2>1. /\ pc'[x] = pc[x] /\ call'[x] = call[x] /\ ThreadRight(x, pc[x], call[x])
        /\ call[x].arg \in Parsers
    BY <1>2, <1>3 DEF IInv, Moved, TypeOK, Calls
  <2>2. pc[x] \in {"find", "lock", "create"} => hashCode(call[x].arg)' = hashCode(call[x].arg)
    BY <1>4, <2>1 DEF ThreadRight, KeyKnown, hashCode
  <2>3. pc[x] \in HasPool => hashCode(parser[call[x].pool])' = hashCode(parser[call[x].pool])
    <3> SUFFICES ASSUME pc[x] \in HasPool PROVE hashCode(parser[call[x].pool])' = hashCode(parser[call[x].pool])
      OBVIOUS
    <3>1. PICK y \in Parsers : y = parser[call[x].pool] /\ hashCode(y) \in Users
      BY <1>2, <2>1 DEF ThreadRight, KeyKnown, IInv, PoolsKnown, TypeOK
    <3> QED
      BY <1>1, <1>4, <2>1, <3>1 DEF hashCode
  <2>4. InPlace(x, pc[x], call[x])' /\ KeyKnown(pc[x], call[x])'
    BY <1>1, <2>1, <2>2 DEF ThreadRight, InPlace, KeyKnown
  <2>5. Plain => PlainCall(x, pc[x], call[x])' /\ PlainFound(pc[x], call[x])'
    BY <1>1, <2>1, <2>2, <2>3 DEF ThreadRight, PlainCall, PlainFound
  <2> QED
    BY <1>1, <2>4, <2>5 DEF ThreadRight, Plain
<1>8. ASSUME NEW q \in PoolIds, poolState[q] # "none"
      PROVE  hashCode(parser[q])' = hashCode(parser[q]) /\ hashCode(parser[q]) \in Users
  BY <1>1, <1>2, <1>4, <1>8 DEF hashCode, IInv, PoolsKnown, TypeOK
<1>9. PoolsKnown' /\ RegisteredIsScheduled'
  BY <1>1, <1>8 DEF IInv, PoolsKnown, RegisteredIsScheduled, Registered
<1>10. PlainMap' /\ OpenPoolIsRegistered'
  <2> SUFFICES ASSUME Plain
               PROVE  /\ \A q \in PoolIds : poolState[q] # "none" => parser[q].src # None
                      /\ \A v \in Users : poolMap[v] # None => hashCode(parser[poolMap[v]])' = v
                      /\ \A q \in PoolIds : poolState[q] = "OK" => poolMap[hashCode(parser[q])'] = q
    BY <1>1 DEF PlainMap, OpenPoolIsRegistered, Plain
  <2>1. ASSUME NEW v \in Users, poolMap[v] # None PROVE hashCode(parser[poolMap[v]])' = v
    <3>1. PICK q \in PoolIds : q = poolMap[v] /\ poolState[q] # "none" /\ hashCode(parser[q]) = v
      BY <1>2, <2>1 DEF IInv, TypeOK, PoolsKnown, PlainMap
    <3>2. hashCode(parser[poolMap[v]])' = hashCode(parser[q])'
      BY <1>1, <3>1 DEF hashCode
    <3> QED
      BY <1>8, <3>1, <3>2
  <2>2. ASSUME NEW q \in PoolIds, poolState[q] = "OK" PROVE poolMap[hashCode(parser[q])'] = q
    BY <1>8, <2>2 DEF IInv, OpenPoolIsRegistered
  <2> QED
    BY <2>1, <2>2 DEF IInv, PlainMap
<1>11. ClosedPoolLeaves'
  <2> SUFFICES ASSUME Plain, NEW q \in Registered, poolState[q] = "CLOSING"
               PROVE  \E x \in Threads : call'[x].pool = q /\ pc'[x] \in {"removeFind", "removeLock", "each"}
    BY <1>1 DEF ClosedPoolLeaves, Plain, Registered
  <2>1. PICK x \in Threads : call[x].pool = q /\ pc[x] \in {"removeFind", "removeLock", "each"}
    BY DEF IInv, ClosedPoolLeaves
  <2> QED
    BY <1>3, <2>1 DEF Moved
<1> QED
  BY <1>5, <1>6, <1>7, <1>9, <1>10, <1>11 DEF IInv, Others

(* getConnection(user, password) sets the user in the shared parser and asks    *)
(* with a clone.                                                                *)
LEMMA GetConnectionAsStep ==
  ASSUME IInv, NEW t \in Threads, NEW s \in Sources, NEW u \in Users, GetConnectionAs(t, s, u), program' = program
  PROVE  IInv'
<1> DEFINE arg == Own(IF urlParser[s] = None THEN u ELSE urlParser[s])
<1>1. /\ urlParser' = [urlParser EXCEPT ![s] = u] /\ Retrieve(t, "getAs", s, arg, u)
      /\ UNCHANGED <<poolMap, mapLock, poolExecutor, scheduled, poolState, parser, opened, program>>
  BY DEF GetConnectionAs, registryVars, poolVars
<1>2. TypeOK /\ arg \in Parsers /\ "getAs" \in OpNames /\ arg.src = None /\ arg.user \in Users
  BY DEF IInv, TypeOK, Parsers, Own, OpNames
<1> HIDE DEF arg
<1>3. PICK c \in Calls :
        /\ Moved(t, "find", c) /\ pc[t] = "out" /\ <<"getAs", s>> \in program[t]
        /\ c.op = "getAs" /\ c.arg = arg /\ c.pool = None /\ c.todo = {}
  BY <1>1, <1>2, ThreadRetrieves
<1>4. ~Plain
  BY <1>3, NotPlain
<1>5. ASSUME NEW y \in Parsers, hashCode(y) \in Users
      PROVE  (IF y.src = None THEN y.user ELSE urlParser'[y.src]) \in Users
  <2>1. urlParser \in [Sources -> Users \cup {None}] /\ y.src \in Sources \cup {None}
    BY <1>2 DEF TypeOK, Parsers
  <2> QED
    BY <1>1, <1>5, <2>1, NoneAssumption DEF hashCode
<1>6. TypeOK'
  BY <1>1, <1>2, <1>3 DEF TypeOK, Moved
<1>7. PoolsKnown' /\ RegisteredIsScheduled'
  BY <1>1, <1>2, <1>5 DEF IInv, PoolsKnown, RegisteredIsScheduled, Registered, TypeOK, hashCode
<1>8. ASSUME NEW x \in Threads PROVE InPlace(x, pc[x], call[x])' /\ KeyKnown(pc[x], call[x])'
  <2>1. CASE x = t
    BY <1>2, <1>3, <2>1 DEF Moved, InPlace, KeyKnown, hashCode, Retrieving, HasPool, Removing
  <2>2. CASE x # t
    <3>1. /\ pc'[x] = pc[x] /\ call'[x] = call[x] /\ ThreadRight(x, pc[x], call[x])
          /\ call[x].arg \in Parsers
      BY <1>2, <1>3, <2>2 DEF IInv, Moved, TypeOK, Calls
    <3>2. pc[x] \in {"find", "lock", "create"} => hashCode(call[x].arg)' \in Users
      BY <1>5, <3>1 DEF ThreadRight, KeyKnown, hashCode
    <3> QED
      BY <1>1, <3>1, <3>2 DEF ThreadRight, InPlace, KeyKnown
  <2> QED
    BY <2>1, <2>2
<1> QED
  BY <1>4, <1>6, <1>7, <1>8, WildStep

(* setUser() gives the data source a new parser; its pools keep the old one.    *)
LEMMA SetUserStep ==
  ASSUME IInv, NEW t \in Threads, NEW s \in Sources, NEW u \in Users, SetUser(t, s, u), program' = program
  PROVE  IInv'
<1>1. /\ TypeOK /\ <<"setUser", s>> \in program[t]
      /\ urlParser[s] \in Users /\ urlParser' = [urlParser EXCEPT ![s] = u]
      /\ parser' = [p \in PoolIds |-> IF parser[p].src = s THEN Own(urlParser[s]) ELSE parser[p]]
      /\ UNCHANGED <<poolMap, mapLock, poolExecutor, scheduled, poolState, opened, pc, call, program>>
  BY DEF IInv, TypeOK, SetUser, Calling, registryVars
<1>2. ~Plain
  BY <1>1, NotPlain
<1>3. Own(urlParser[s]) \in Parsers /\ Own(urlParser[s]).src = None /\ Own(urlParser[s]).user \in Users
  BY <1>1 DEF Own, Parsers
<1>4. ASSUME NEW y \in Parsers, hashCode(y) \in Users
      PROVE  (IF y.src = None THEN y.user ELSE urlParser'[y.src]) \in Users
  <2>1. urlParser \in [Sources -> Users \cup {None}] /\ y.src \in Sources \cup {None}
    BY <1>1 DEF TypeOK, Parsers
  <2> QED
    BY <1>1, <1>4, <2>1, NoneAssumption DEF hashCode
<1>5. TypeOK'
  BY <1>1, <1>3 DEF TypeOK
<1>6. ASSUME NEW q \in PoolIds, poolState[q] # "none" PROVE hashCode(parser[q])' \in Users
  <2>1. CASE parser[q].src = s
    BY <1>1, <1>3, <2>1 DEF hashCode
  <2>2. CASE parser[q].src # s
    BY <1>1, <1>4, <1>6, <2>2 DEF hashCode, IInv, PoolsKnown, TypeOK
  <2> QED
    BY <2>1, <2>2
<1>7. PoolsKnown' /\ RegisteredIsScheduled'
  BY <1>1, <1>6 DEF IInv, PoolsKnown, RegisteredIsScheduled, Registered
<1>8. ASSUME NEW x \in Threads PROVE InPlace(x, pc[x], call[x])' /\ KeyKnown(pc[x], call[x])'
  <2>1. ThreadRight(x, pc[x], call[x]) /\ call[x].arg \in Parsers
    BY <1>1 DEF IInv, TypeOK, Calls
  <2>2. pc[x] \in {"find", "lock", "create"} => hashCode(call[x].arg)' \in Users
    BY <1>1, <1>4, <2>1 DEF ThreadRight, KeyKnown, hashCode
  <2> QED
    BY <1>1, <2>1, <2>2 DEF ThreadRight, InPlace, KeyKnown
<1> QED
  BY <1>2, <1>5, <1>7, <1>8, WildStep

(* A step that leaves all but the connections of the pools as it is.            *)
LEMMA ConnectionsOnly ==
  ASSUME IInv, TypeOK',
         UNCHANGED <<urlParser, poolMap, mapLock, poolExecutor, scheduled, poolState, parser, pc, call, program>>
  PROVE  IInv'
<1>1. ASSUME NEW x \in Threads PROVE ThreadRight(x, pc[x], call[x])'
  <2>1. ThreadRight(x, pc[x], call[x])
    BY DEF IInv
  <2> QED
    BY <2>1 DEF ThreadRight, InPlace, KeyKnown, PlainCall, PlainFound, hashCode, Plain
<1>2. (PoolsKnown /\ RegisteredIsScheduled /\ PlainMap /\ OpenPoolIsRegistered)'
  BY DEF IInv, PoolsKnown, RegisteredIsScheduled, Registered, PlainMap, OpenPoolIsRegistered, hashCode, Plain
<1>3. ClosedPoolLeaves'
  BY DEF IInv, ClosedPoolLeaves, Registered, Plain
<1> QED
  BY <1>1, <1>2, <1>3 DEF IInv

(* The appender opens another connection of a pool.                             *)
LEMMA OpenConnectionStep ==
  ASSUME IInv, NEW p \in PoolIds, OpenConnection(p), program' = program
  PROVE  IInv'
<1>1. /\ TypeOK /\ opened' = [opened EXCEPT ![p] = @ \cup {hashCode(parser[p])}] /\ hashCode(parser[p]) \in Users
      /\ UNCHANGED <<urlParser, poolMap, mapLock, poolExecutor, scheduled, poolState, parser, pc, call, program>>
  BY DEF IInv, PoolsKnown, OpenConnection, registryVars
<1>2. TypeOK'
  BY <1>1 DEF TypeOK
<1> QED
  BY <1>1, <1>2, ConnectionsOnly

-----------------------------------------------------------------------------
(* An empty registry, and nobody in a call.                                     *)
LEMMA InitiallyRight == Init => IInv
<1> SUFFICES ASSUME Init PROVE IInv
  OBVIOUS
<1>1. TypeOK
  BY DEF Init, TypeOK, Locations, NoCall, Calls, Parsers, Own
<1>2. ASSUME NEW t \in Threads PROVE ThreadRight(t, pc[t], call[t])
  BY OutsideIsRight DEF Init
<1>3. Registered = {}
  BY DEF Init, Registered
<1>4. PoolsKnown /\ RegisteredIsScheduled /\ PlainMap /\ OpenPoolIsRegistered /\ ClosedPoolLeaves
  BY <1>3 DEF Init, PoolsKnown, RegisteredIsScheduled, PlainMap, OpenPoolIsRegistered, ClosedPoolLeaves
<1> QED
  BY <1>1, <1>2, <1>4 DEF IInv

(* Every step of the threads and the pools keeps the inductive invariant.       *)
LEMMA RegistryStep == IInv /\ [Next]_vars => IInv'
<1> SUFFICES ASSUME IInv, [Next]_vars PROVE IInv'
  OBVIOUS
<1>1. CASE UNCHANGED vars
  <2>1. TypeOK' /\ UNCHANGED <<urlParser, poolMap, mapLock, poolExecutor, scheduled, poolState, parser, pc, call, program>>
    BY <1>1 DEF vars, registryVars, poolVars, IInv, TypeOK
  <2> QED
    BY <2>1, ConnectionsOnly
<1>2. CASE Next
  <2>1. program' = program /\ Step
    BY <1>2 DEF Next
  <2>2. ASSUME NEW t \in Threads, Continue(t) \/ Release(t) PROVE IInv'
    BY <2>1, <2>2, UnlockedFindStep, DereferenceStep, LookupStep, CreatePoolStep, ServeStep, BeginCloseStep,
       RemoveFindStep, RemoveLockedStep, CloseNextStep, CloseDoneStep DEF Continue
  <2> QED
    BY <2>1, <2>2, GetConnectionStep, CloseDataSourceStep, GetConnectionAsStep, SetUserStep, ClosePoolsStep,
       OpenConnectionStep DEF Step
<1> QED
  BY <1>1, <1>2

(* Hence it always holds.                                                       *)
LEMMA RegistryInvariance == Spec => []IInv
BY InitiallyRight, RegistryStep, PTL DEF Spec

(* Two open pools for one configuration never exist in a plain application,     *)
(* although retrievePool looks twice, once without the lock, and dereferences   *)
(* what it found after it has released it.                                      *)
THEOREM OnePoolPerUser == Spec => []OneOpenPool
<1>1. IInv => OneOpenPool
  BY DEF IInv, OpenPoolIsRegistered, OneOpenPool
<1> QED
  BY <1>1, RegistryInvariance, PTL

(* The map, the executor and the pools tell the same: for every application a   *)
(* registered pool has its executor and its task; in a plain one an open pool   *)
(* is registered under its key and a closed one on its way out.                 *)
THEOREM RegistryMirrorsPools == Spec => []MapMirrorsPools
<1>1. IInv => MapMirrorsPools
  BY DEF IInv, MapMirrorsPools
<1> QED
  BY <1>1, RegistryInvariance, PTL
=============================================================================
