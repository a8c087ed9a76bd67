---------------------------- MODULE SessionProofs ----------------------------
(* What a session promises, proved in five parts. SessionState: transactions and *)
(* resets, from the types and from the fact that the driver never overlooks an     *)
(* open transaction. StatementSettings: the statements that share a session, from  *)
(* the fact that a result set, a text of a batch and a row limit have one owner.    *)
(* PreparedStatementCache: share counters are exact and no handle is closed twice,  *)
(* for every number of statements, keys and results and every cache size.           *)
(* ErrorPaths: an error of the server reaches the caller as what it is, whichever   *)
(* way the statement was sent. ConnectionCalls: what the calls of a connection tell  *)
(* is about its session as it is now.                                               *)
EXTENDS SessionState, StatementSettings, PreparedStatementCache, ErrorPaths, ConnectionCalls, SequenceLemmas

\* what is inductive about a pooled session
IInv == TypeOK /\ TransactionIsKnown /\ SessionIsReset

-----------------------------------------------------------------------------
(* Every step keeps the three records and the flags well typed.                 *)
LEMMA TypeStep == TypeOK /\ [Next]_vars => TypeOK'
<1> SUFFICES ASSUME TypeOK, [Next]_vars PROVE TypeOK'
  OBVIOUS
<1> USE DEF TypeOK, Sessions, Protocols, Settings, Flags
<1>1. CASE Borrow
  BY <1>1 DEF Borrow
<1>2. CASE Execute
  BY <1>2 DEF Execute, AfterUpdate, Begun, Refreshed
<1>3. CASE ExecuteFails
  BY <1>3 DEF ExecuteFails, AfterUpdate, StatusAfterError
<1>4. CASE EndTransaction
  BY <1>4 DEF EndTransaction, Ended, Refreshed
<1>5. ASSUME NEW v \in BOOLEAN, SetAutoCommit(v) PROVE TypeOK'
  <2>1. CASE v = protocol.autocommit
    BY <1>5, <2>1 DEF SetAutoCommit
  <2>2. CASE v # protocol.autocommit
    <3>1. (server.inTransaction /\ ~v) \in BOOLEAN
      OBVIOUS
    <3>2. server' = [server EXCEPT !.autocommit = v, !.inTransaction = server.inTransaction /\ ~v]
      BY <1>5, <2>2 DEF SetAutoCommit
    <3>3. server' \in Sessions
      BY <3>1, <3>2
    <3>4. protocol' = Refreshed(server') /\ stateFlag' = FlagsWith("AUTOCOMMIT")
      BY <1>5, <2>2 DEF SetAutoCommit
    <3>5. protocol' \in Protocols
      BY <3>3, <3>4 DEF Refreshed
    <3> QED
      BY <1>5, <3>3, <3>4, <3>5 DEF SetAutoCommit, FlagsWith
  <2> QED
    BY <2>1, <2>2
<1>6. ASSUME NEW v \in BOOLEAN, SetReadOnly(v) PROVE TypeOK'
  BY <1>6 DEF SetReadOnly, FlagsWith
<1>7. ASSUME NEW x \in Settings, SetTransactionIsolation(x) \/ SetSchema(x) \/ SetNetworkTimeout(x)
      PROVE  TypeOK'
  BY <1>7 DEF SetTransactionIsolation, SetSchema, SetNetworkTimeout, FlagsWith
<1>8. ASSUME NEW way \in {"close", "destroy"}, GiveBack(way) PROVE TypeOK'
  BY <1>8 DEF GiveBack, AfterRollback, AfterComReset, Ended, Refreshed, FreshSession
<1>9. CASE UNCHANGED vars
  BY <1>9 DEF vars
<1> QED
  BY <1>1, <1>2, <1>3, <1>4, <1>5, <1>6, <1>7, <1>8, <1>9 DEF Next

(* No step leaves the server in a transaction that serverStatus does not show.  *)
(* The steps that change one without the other are an error, after which the    *)
(* driver assumes a transaction, and COM_RESET_CONNECTION, which ends it.       *)
LEMMA KnownStep == TypeOK /\ TransactionIsKnown /\ [Next]_vars => TransactionIsKnown'
<1> SUFFICES ASSUME TypeOK, TransactionIsKnown, [Next]_vars PROVE TransactionIsKnown'
  OBVIOUS
<1> USE DEF TypeOK, Sessions, Protocols, TransactionIsKnown
<1>1. CASE Borrow
  BY <1>1 DEF Borrow
<1>2. CASE Execute
  <2>1. server' \in Sessions
    BY <1>2 DEF Execute, AfterUpdate, Begun, Settings
  <2> QED
    BY <1>2, <2>1 DEF Execute, Refreshed
<1>3. CASE ExecuteFails
  BY <1>3 DEF ExecuteFails, AfterUpdate, StatusAfterError
<1>4. CASE EndTransaction
  BY <1>4 DEF EndTransaction, Ended
<1>5. ASSUME NEW v \in BOOLEAN, SetAutoCommit(v) PROVE TransactionIsKnown'
  BY <1>5 DEF SetAutoCommit, Refreshed
<1>6. ASSUME NEW v \in BOOLEAN, SetReadOnly(v) PROVE TransactionIsKnown'
  BY <1>6 DEF SetReadOnly
<1>7. ASSUME NEW x \in Settings, SetTransactionIsolation(x) \/ SetSchema(x) \/ SetNetworkTimeout(x)
      PROVE  TransactionIsKnown'
  BY <1>7 DEF SetTransactionIsolation, SetSchema, SetNetworkTimeout
<1>8. ASSUME NEW way \in {"close", "destroy"}, GiveBack(way) PROVE TransactionIsKnown'
  <2>1. CASE useComReset
    BY <1>8, <2>1 DEF GiveBack, AfterComReset, FreshSession
  <2>2. CASE ~useComReset /\ way = "close"
    BY <1>8, <2>2 DEF GiveBack, AfterRollback, Ended
  <2>3. CASE ~useComReset /\ way = "destroy"
    BY <1>8, <2>3 DEF GiveBack
  <2> QED
    BY <2>1, <2>2, <2>3
<1>9. CASE UNCHANGED vars
  BY <1>9 DEF vars
<1> QED
  BY <1>1, <1>2, <1>3, <1>4, <1>5, <1>6, <1>7, <1>8, <1>9 DEF Next

(* Only GiveBack makes a connection idle, and it resets the session when it can.*)
LEMMA ResetStep == TypeOK /\ SessionIsReset /\ [Next]_vars => SessionIsReset'
<1> SUFFICES ASSUME TypeOK, SessionIsReset, [Next]_vars PROVE SessionIsReset'
  OBVIOUS
<1>1. CASE UNCHANGED vars
  BY <1>1 DEF vars, SessionIsReset
<1>2. ASSUME NEW way \in {"close", "destroy"}, GiveBack(way) PROVE SessionIsReset'
  <2>1. CASE useComReset'
    <3> DEFINE r == [server' EXCEPT !.database = "default"]
    <3>1. PICK s \in Sessions : server' = AfterComReset(s)
      <4>1. AfterRollback \in Sessions /\ server \in Sessions
        BY DEF TypeOK, AfterRollback, Ended, Sessions
      <4> QED
        BY <1>2, <2>1, <4>1 DEF GiveBack
    <3>2. /\ r \in [autocommit : BOOLEAN, inTransaction : BOOLEAN, isolation : Settings,
                     database : Settings, variables : Settings]
          /\ r.autocommit = TRUE /\ r.inTransaction = FALSE
          /\ r.isolation = "default" /\ r.database = "default" /\ r.variables = "default"
      BY <3>1 DEF AfterComReset, FreshSession, Sessions, Settings
    <3>3. r = FreshSession
      <4> HIDE DEF r
      <4> QED
        BY <3>2 DEF FreshSession
    <3> QED
      BY <3>3 DEF SessionIsReset
  <2> QED
    BY <2>1 DEF SessionIsReset
<1>3. CASE user' = "held"
  BY <1>3 DEF SessionIsReset
<1>4. (\E way \in {"close", "destroy"} : GiveBack(way)) \/ user' = "held" \/ UNCHANGED vars
  BY DEF Next, Borrow, Execute, ExecuteFails, EndTransaction, SetAutoCommit, SetReadOnly,
         SetTransactionIsolation, SetSchema, SetNetworkTimeout
<1> QED
  BY <1>1, <1>2, <1>3, <1>4

-----------------------------------------------------------------------------
(* The three facts hold together, from the first lease of a connection on.     *)
LEMMA Invariance == Spec => []IInv
<1>1. Init => IInv
  BY DEF Init, IInv, TypeOK, Sessions, Protocols, Settings, FreshSession, FreshProtocol,
         TransactionIsKnown, SessionIsReset
<1>2. IInv /\ [Next]_vars => IInv'
  BY TypeStep, KnownStep, ResetStep DEF IInv
<1> QED
  BY <1>1, <1>2, PTL DEF Spec

(* The driver never overlooks an open transaction (commit, rollback and close   *)
(* consult serverStatus only), whatever errors, resets and users came before;   *)
(* and a session that is reset when it is given back is idle in its first state.*)
THEOREM SessionSafety == Spec => [](TypeOK /\ TransactionIsKnown /\ SessionIsReset)
BY Invariance, PTL DEF IInv

(* With COM_RESET_CONNECTION, no lease of a connection starts with what an       *)
(* earlier user left in its session.                                            *)
THEOREM SessionsComeBackReset == Spec => []SessionIsReset
BY Invariance, PTL DEF IInv

(* Giving a connection back ends its transaction, unless its object is merely   *)
(* destroyed and the pool does not reset it.                                    *)
THEOREM TransactionsEnd == Spec => NoTransactionLeaks
<1> DEFINE Leak == (GiveBack("close") \/ (GiveBack("destroy") /\ useComReset)) => ~server'.inTransaction
<1>1. IInv /\ [Next]_vars => [Leak]_vars
  <2> SUFFICES ASSUME IInv PROVE Leak
    OBVIOUS
  <2>1. server.inTransaction => protocol.inTransaction
    BY DEF IInv, TransactionIsKnown
  <2>2. ASSUME GiveBack("close") PROVE ~server'.inTransaction
    <3>1. ~AfterRollback.inTransaction
      BY <2>1 DEF AfterRollback, Ended, IInv, TypeOK, Sessions
    <3> QED
      BY <2>2, <3>1 DEF GiveBack, AfterComReset, FreshSession
  <2>3. ASSUME GiveBack("destroy"), useComReset PROVE ~server'.inTransaction
    BY <2>3 DEF GiveBack, AfterComReset, FreshSession
  <2> QED
    BY <2>2, <2>3
<1> QED
  BY <1>1, Invariance, PTL DEF Spec, NoTransactionLeaks

-----------------------------------------------------------------------------
(* The statements of one session. A board is the record that StatementSettings     *)
(* calls so; the lemmas speak of boards, as most steps make one out of another.    *)

Statement ==
  [scroll : Scrolls, fetchSize : Nat, maxRows : Nat, queryTimeout : Nat, batch : Seq(Nat),
   closeOnCompletion : BOOLEAN, closed : BOOLEAN, current : Nat, released : Nat]
ResultSet == [by : Handles, closed : BOOLEAN]
Execution ==
  [by : Handles, batch : BOOLEAN, limit : Nat, time : Nat, fetchSize : Nat, scroll : Scrolls, keys : BOOLEAN]
Board ==
  [limit : Nat, known : Nat, stale : BOOLEAN, of : [Handles -> Statement], sets : Seq(ResultSet), ran : Seq(Nat),
   steps : Nat, did : {Nobody} \cup Execution]

(* A statement's result sets are its own.                                        *)
SetsHaveTheirStatement(b) ==
  \A h \in Handles :
    /\ b.of[h].current # 0 => b.of[h].current <= Len(b.sets) /\ b.sets[b.of[h].current].by = h
    /\ b.of[h].released # 0 => b.of[h].released <= Len(b.sets) /\ b.sets[b.of[h].released].by = h

(* The protocol's belief is right, but after a reset.                              *)
LimitIsKnown(b) == b.stale \/ b.limit = b.known

(* A statement that may scroll has no fetch size.                                  *)
ScrollsAreStored(b) == \A h \in Handles : b.of[h].fetchSize # 0 => b.of[h].scroll = "forward"

(* No text is in two batches, or twice in one, or in one and run.                  *)
TextsApart(b) ==
  /\ \A i \in 1..Len(b.ran) : b.ran[i] < b.steps
  /\ \A i, j \in 1..Len(b.ran) : b.ran[i] = b.ran[j] => i = j
  /\ \A h \in Handles : \A i \in 1..Len(b.of[h].batch) :
       /\ b.of[h].batch[i] < b.steps
       /\ \A j \in 1..Len(b.ran) : b.of[h].batch[i] # b.ran[j]
       /\ \A g \in Handles : \A j \in 1..Len(b.of[g].batch) :
            b.of[h].batch[i] = b.of[g].batch[j] => h = g /\ i = j

Apart(b) == b \in Board /\ SetsHaveTheirStatement(b) /\ LimitIsKnown(b) /\ ScrollsAreStored(b) /\ TextsApart(b)

(* The record of the last execution is true.                                       *)
RanAsSet(b) ==
  b.did # Nobody =>
    /\ b.did.limit = b.of[b.did.by].maxRows \/ b.stale
    /\ ServerTimeouts /\ ~b.did.batch => b.did.time = b.of[b.did.by].queryTimeout
    /\ b.did.fetchSize # 0 => b.did.scroll = "forward"

SettingsInv == Apart(board) /\ RanAsSet(board)

-----------------------------------------------------------------------------
(* Closing result sets and statements                                              *)

(* Nothing but closing, and letting go of what is closed, takes b to r.            *)
Settles(b, r) ==
  /\ r \in Board
  /\ r.limit = b.limit /\ r.known = b.known /\ r.stale = b.stale
  /\ r.ran = b.ran /\ r.steps = b.steps /\ r.did = b.did
  /\ Len(r.sets) = Len(b.sets) /\ \A i \in 1..Len(b.sets) : r.sets[i].by = b.sets[i].by
  /\ \A h \in Handles :
       /\ r.of[h].scroll = b.of[h].scroll /\ r.of[h].fetchSize = b.of[h].fetchSize
       /\ r.of[h].maxRows = b.of[h].maxRows /\ r.of[h].queryTimeout = b.of[h].queryTimeout
       /\ r.of[h].batch = b.of[h].batch
       /\ r.of[h].current \in {0, b.of[h].current} /\ r.of[h].released \in {0, b.of[h].released}

(* Closing and letting go keeps the statements apart.                               *)
LEMMA SettledApart ==
  ASSUME NEW b, NEW r, Apart(b), Settles(b, r)
  PROVE  Apart(r)
<1> USE DEF Apart, Settles
<1>1. SetsHaveTheirStatement(r)
  <2>1. \A h \in Handles : r.of[h].current \in Nat /\ r.of[h].released \in Nat
    BY DEF Board, Statement
  <2>2. \A h \in Handles : b.of[h].current \in Nat /\ b.of[h].released \in Nat
    BY DEF Board, Statement
  <2>3. Len(b.sets) \in Nat
    BY DEF Board
  <2>4. ASSUME NEW h \in Handles, r.of[h].current # 0
        PROVE  r.of[h].current <= Len(r.sets) /\ r.sets[r.of[h].current].by = h
    <3>1. r.of[h].current = b.of[h].current
      BY <2>4
    <3>2. b.of[h].current \in 1..Len(b.sets) /\ b.sets[b.of[h].current].by = h
      BY <2>2, <2>3, <2>4, <3>1 DEF SetsHaveTheirStatement
    <3> QED
      BY <2>3, <3>1, <3>2
  <2>5. ASSUME NEW h \in Handles, r.of[h].released # 0
        PROVE  r.of[h].released <= Len(r.sets) /\ r.sets[r.of[h].released].by = h
    <3>1. r.of[h].released = b.of[h].released
      BY <2>5
    <3>2. b.of[h].released \in 1..Len(b.sets) /\ b.sets[b.of[h].released].by = h
      BY <2>2, <2>3, <2>5, <3>1 DEF SetsHaveTheirStatement
    <3> QED
      BY <2>3, <3>1, <3>2
  <2> QED
    BY <2>4, <2>5 DEF SetsHaveTheirStatement
<1>2. LimitIsKnown(r)
  BY DEF LimitIsKnown
<1>3. ScrollsAreStored(r)
  BY DEF ScrollsAreStored
<1>4. TextsApart(r)
  BY SMTT(30) DEF TextsApart
<1> QED
  BY <1>1, <1>2, <1>3, <1>4

(* Two such steps are one.                                                         *)
LEMMA SettlesTwice ==
  ASSUME NEW a, NEW b, NEW c, Settles(a, b), Settles(b, c)
  PROVE  Settles(a, c)
<1>1. \A h \in Handles : c.of[h].current \in {0, a.of[h].current} /\ c.of[h].released \in {0, a.of[h].released}
  BY DEF Settles
<1> QED
  BY <1>1 DEF Settles

(* Nothing at all is such a step.                                                  *)
LEMMA SettlesItself == ASSUME NEW b \in Board PROVE Settles(b, b)
BY DEF Settles

(* Result sets are closed, and their statements are left alone.                    *)
LEMMA CloseSetsFields ==
  ASSUME NEW b \in Board, NEW ks, NEW r, r = CloseSets(b, ks)
  PROVE  /\ Settles(b, r) /\ r.of = b.of
         /\ \A i \in 1..Len(b.sets) : r.sets[i].closed <=> (i \in ks \/ b.sets[i].closed)
<1> DEFINE t == [i \in 1..Len(b.sets) |-> IF i \in ks THEN [b.sets[i] EXCEPT !.closed = TRUE] ELSE b.sets[i]]
<1>1. r = [b EXCEPT !.sets = t]
  BY DEF CloseSets
<1>2. \A i \in 1..Len(b.sets) : b.sets[i] \in ResultSet
  BY DEF Board
<1>3. \A i \in 1..Len(b.sets) : t[i] \in ResultSet /\ t[i].by = b.sets[i].by
  BY <1>2 DEF ResultSet
<1>4. \A i \in 1..Len(b.sets) : t[i].closed <=> (i \in ks \/ b.sets[i].closed)
  BY <1>2 DEF ResultSet
<1>5. Len(b.sets) \in Nat
  BY DEF Board
<1>6. t \in Seq(ResultSet) /\ Len(t) = Len(b.sets)
  <2>1. t \in [1..Len(b.sets) -> ResultSet]
    BY <1>3
  <2> HIDE DEF t
  <2> QED
    BY <1>5, <2>1
<1> HIDE DEF t
<1>7. /\ r \in Board /\ r.sets = t /\ r.of = b.of /\ r.limit = b.limit /\ r.known = b.known /\ r.stale = b.stale
      /\ r.ran = b.ran /\ r.steps = b.steps /\ r.did = b.did
  BY <1>1, <1>6 DEF Board
<1>8. Settles(b, r)
  BY <1>3, <1>6, <1>7 DEF Settles
<1> QED
  BY <1>4, <1>7, <1>8

\* a board on which statement h is s
Put(b, h, s) == [b EXCEPT !.of = [b.of EXCEPT ![h] = s]]

(* One statement gets other settings or results.                                   *)
LEMMA PutFields ==
  ASSUME NEW b \in Board, NEW h \in Handles, NEW s \in Statement,
         NEW r, r = Put(b, h, s)
  PROVE  /\ r \in Board /\ r.of[h] = s /\ \A g \in Handles \ {h} : r.of[g] = b.of[g]
         /\ r.sets = b.sets /\ r.limit = b.limit /\ r.known = b.known /\ r.stale = b.stale
         /\ r.ran = b.ran /\ r.steps = b.steps /\ r.did = b.did
<1>1. PICK f : f = [b.of EXCEPT ![h] = s]
  OBVIOUS
<1>2. f \in [Handles -> Statement] /\ f[h] = s /\ \A g \in Handles \ {h} : f[g] = b.of[g]
  BY <1>1 DEF Board
<1>3. r = [b EXCEPT !.of = f]
  BY <1>1 DEF Put
<1>4. /\ r \in Board /\ r.of = f
      /\ r.sets = b.sets /\ r.limit = b.limit /\ r.known = b.known /\ r.stale = b.stale
      /\ r.ran = b.ran /\ r.steps = b.steps /\ r.did = b.did
  BY <1>2, <1>3 DEF Board
<1> QED
  BY <1>2, <1>4

(* A statement is closed, and with it the set that it has handed out.              *)
LEMMA ClosedFields ==
  ASSUME NEW b \in Board, NEW h \in Handles, NEW r, r = Closed(b, h)
  PROVE  /\ Settles(b, r) /\ \A g \in Handles \ {h} : r.of[g] = b.of[g]
         /\ r.of[h].closed /\ (r.of[h].closeOnCompletion <=> b.of[h].closeOnCompletion)
         /\ \A i \in 1..Len(b.sets) : r.sets[i].closed <=> (i = b.of[h].released \/ b.sets[i].closed)
<1>1. PICK c : c = CloseSets(b, {b.of[h].released})
  OBVIOUS
<1>2. Settles(b, c) /\ c.of = b.of /\ \A i \in 1..Len(b.sets) : c.sets[i].closed <=> (i = b.of[h].released \/ b.sets[i].closed)
  BY <1>1, CloseSetsFields
<1>3. c \in Board /\ c.of[h] \in Statement
  BY <1>2 DEF Settles, Board
<1> DEFINE s == [c.of[h] EXCEPT !.closed = TRUE, !.released = 0]
<1>4. r = Put(c, h, s)
  BY <1>1 DEF Closed, Put
<1>5. /\ s \in Statement /\ s.scroll = b.of[h].scroll /\ s.fetchSize = b.of[h].fetchSize /\ s.maxRows = b.of[h].maxRows
      /\ s.queryTimeout = b.of[h].queryTimeout /\ s.batch = b.of[h].batch /\ s.current = b.of[h].current
      /\ s.released = 0
  BY <1>2, <1>3 DEF Statement
<1>6. s.closed /\ s.closeOnCompletion = b.of[h].closeOnCompletion
  BY <1>2, <1>3 DEF Statement
<1> HIDE DEF s
<1>7. /\ r \in Board /\ r.of[h] = s /\ \A g \in Handles \ {h} : r.of[g] = b.of[g]
  BY <1>2, <1>3, <1>4, <1>5, PutFields, SMTT(30)
<1>8. /\ r.sets = c.sets /\ r.limit = b.limit /\ r.known = b.known /\ r.stale = b.stale
      /\ r.ran = b.ran /\ r.steps = b.steps /\ r.did = b.did
  BY <1>2, <1>3, <1>4, <1>5, PutFields DEF Settles
<1>9. Settles(b, r)
  BY <1>2, <1>5, <1>7, <1>8 DEF Settles
<1> QED
  BY <1>2, <1>6, <1>7, <1>8, <1>9

(* A result set is closed, and with it perhaps its statement.                      *)
LEMMA CloseResultFields ==
  ASSUME NEW b \in Board, NEW k \in 1..Len(b.sets), NEW h, h = b.sets[k].by, NEW r, r = CloseResult(b, k)
  PROVE  /\ h \in Handles /\ Settles(b, r) /\ \A g \in Handles \ {h} : r.of[g] = b.of[g]
         /\ ~Completes(b.of[h], k) => r.of = b.of
         /\ Completes(b.of[h], k) => r.of[h].closed
         /\ r.of[h].closeOnCompletion <=> b.of[h].closeOnCompletion
         /\ r.sets[k].closed
         /\ \A i \in 1..Len(b.sets) :
              r.sets[i].closed <=> (i = k \/ (Completes(b.of[h], k) /\ i = b.of[h].released) \/ b.sets[i].closed)
<1>1. h \in Handles
  <2>1. b.sets \in Seq(ResultSet)
    BY DEF Board
  <2>2. b.sets[k] \in ResultSet
    BY <2>1
  <2> QED
    BY <2>2 DEF ResultSet
<1>2. PICK d : d = CloseSets(b, {k})
  OBVIOUS
<1>3. Settles(b, d) /\ d.of = b.of /\ \A i \in 1..Len(b.sets) : d.sets[i].closed <=> (i = k \/ b.sets[i].closed)
  BY <1>2, CloseSetsFields
<1>4. r = IF Completes(b.of[h], k) THEN Closed(d, h) ELSE d
  BY <1>2 DEF CloseResult
<1>5. d \in Board /\ Len(d.sets) = Len(b.sets)
  BY <1>3 DEF Settles
<1>6. CASE Completes(b.of[h], k)
  <2>1. r = Closed(d, h)
    BY <1>4, <1>6
  <2>2. /\ Settles(d, r) /\ \A g \in Handles \ {h} : r.of[g] = d.of[g]
        /\ r.of[h].closed /\ (r.of[h].closeOnCompletion <=> d.of[h].closeOnCompletion)
        /\ \A i \in 1..Len(d.sets) : r.sets[i].closed <=> (i = d.of[h].released \/ d.sets[i].closed)
    BY <1>1, <1>5, <2>1, ClosedFields
  <2>3. Settles(b, r)
    BY <1>3, <2>2, SettlesTwice
  <2> QED
    BY <1>1, <1>3, <1>5, <1>6, <2>2, <2>3
<1>7. CASE ~Completes(b.of[h], k)
  BY <1>1, <1>3, <1>4, <1>7
<1> QED
  BY <1>6, <1>7

(* The results of a statement are replaced: the set it had handed out is closed,    *)
(* and the statement is not, for the set is no longer its last one.                *)
LEMMA NewResultsFields ==
  ASSUME NEW b \in Board, SetsHaveTheirStatement(b), NEW h \in Handles, NEW r, r = NewResults(b, h)
  PROVE  /\ Settles(b, r) /\ \A g \in Handles \ {h} : r.of[g] = b.of[g]
         /\ r.of[h].current = 0 /\ r.of[h].released = 0
         /\ (r.of[h].closed <=> b.of[h].closed)
<1>1. b.of[h] \in Statement
  BY DEF Board
<1>2. PICK s : s = [b.of[h] EXCEPT !.current = 0, !.released = 0]
  OBVIOUS
<1>3. /\ s \in Statement /\ s.scroll = b.of[h].scroll /\ s.fetchSize = b.of[h].fetchSize /\ s.maxRows = b.of[h].maxRows
      /\ s.queryTimeout = b.of[h].queryTimeout /\ s.batch = b.of[h].batch /\ s.current = 0 /\ s.released = 0
      /\ s.closed = b.of[h].closed
  BY <1>1, <1>2 DEF Statement
<1>4. PICK f : f = [b EXCEPT !.of[h].current = 0, !.of[h].released = 0]
  OBVIOUS
<1>5. f = Put(b, h, s)
  BY <1>1, <1>2, <1>4 DEF Board, Statement, Put
<1>6. /\ f \in Board /\ f.of[h] = s /\ \A g \in Handles \ {h} : f.of[g] = b.of[g]
      /\ f.sets = b.sets /\ f.limit = b.limit /\ f.known = b.known /\ f.stale = b.stale
      /\ f.ran = b.ran /\ f.steps = b.steps /\ f.did = b.did
  <2>1. s \in Statement
    BY <1>3
  <2> QED
    BY <1>5, <2>1, PutFields
<1>7. Settles(b, f)
  BY <1>3, <1>6 DEF Settles
<1> DEFINE old == b.of[h].released
<1>8. r = IF old = 0 \/ b.sets[old].closed THEN f ELSE CloseResult(f, old)
  BY <1>4 DEF NewResults
<1>9. CASE old = 0 \/ b.sets[old].closed
  BY <1>3, <1>6, <1>7, <1>8, <1>9
<1>10. CASE ~(old = 0 \/ b.sets[old].closed)
  <2>1. old \in 1..Len(b.sets) /\ b.sets[old].by = h /\ old # 0
    BY <1>1, <1>10 DEF SetsHaveTheirStatement, Statement, Board
  <2>2. ~Completes(f.of[h], old)
    BY <1>3, <1>6, <2>1 DEF Completes, ResultSetOf
  <2>3. r = CloseResult(f, old)
    BY <1>8, <1>10
  <2> HIDE DEF old
  <2>4. Settles(f, r) /\ r.of = f.of
    BY <1>6, <2>1, <2>2, <2>3, CloseResultFields
  <2>5. Settles(b, r)
    BY <1>7, <2>4, SettlesTwice
  <2> QED
    BY <1>3, <1>6, <2>4, <2>5
<1> QED
  BY <1>9, <1>10

-----------------------------------------------------------------------------
(* The calls of the application                                                    *)

(* A call is counted.                                                              *)
LEMMA SteppedFields ==
  ASSUME NEW b \in Board, NEW r, r = Stepped(b)
  PROVE  /\ r \in Board /\ r.of = b.of /\ r.sets = b.sets /\ r.limit = b.limit /\ r.known = b.known
         /\ r.stale = b.stale /\ r.ran = b.ran /\ r.steps = b.steps + 1 /\ r.did = Nobody
<1>1. b.steps + 1 \in Nat
  BY DEF Board
<1>2. PICK n : n = b.steps + 1
  OBVIOUS
<1>3. PICK d : d = Nobody
  OBVIOUS
<1>4. r = [b EXCEPT !.steps = n, !.did = d]
  BY <1>2, <1>3 DEF Stepped
<1>5. n \in Nat /\ d \in {Nobody} \cup Execution
  BY <1>1, <1>2, <1>3
<1> QED
  BY <1>2, <1>3, <1>4, <1>5 DEF Board

(* Batches that grew by nothing, in one statement or in all.                       *)
LEMMA TextsKept ==
  ASSUME NEW b \in Board, NEW r \in Board, TextsApart(b), r.ran = b.ran, r.steps >= b.steps,
         \A h \in Handles : r.of[h].batch = b.of[h].batch \/ r.of[h].batch = << >>
  PROVE  TextsApart(r)
<1>1. b.steps \in Nat /\ r.steps \in Nat
  BY DEF Board
<1>2. \A i \in 1..Len(b.ran) : b.ran[i] \in Nat
  BY DEF Board
<1>3. \A h \in Handles : \A i \in 1..Len(r.of[h].batch) :
        r.of[h].batch = b.of[h].batch /\ i \in 1..Len(b.of[h].batch)
  OBVIOUS
<1>4. ASSUME NEW h \in Handles, NEW i \in 1..Len(b.of[h].batch) PROVE b.of[h].batch[i] \in Nat
  <2>1. b.of[h].batch \in Seq(Nat)
    BY DEF Board, Statement
  <2> QED
    BY <2>1
<1>5. \A i \in 1..Len(r.ran) : r.ran[i] < r.steps
  BY <1>1, <1>2 DEF TextsApart
<1>6. \A h \in Handles : \A i \in 1..Len(r.of[h].batch) : r.of[h].batch[i] < r.steps
  BY <1>1, <1>3, <1>4, SMTT(30) DEF TextsApart
<1>7. \A h \in Handles : \A i \in 1..Len(r.of[h].batch) : \A j \in 1..Len(r.ran) : r.of[h].batch[i] # r.ran[j]
  BY <1>3 DEF TextsApart
<1>8. ASSUME NEW h \in Handles, NEW i \in 1..Len(r.of[h].batch), NEW g \in Handles, NEW j \in 1..Len(r.of[g].batch),
             r.of[h].batch[i] = r.of[g].batch[j]
      PROVE  h = g /\ i = j
  <2>1. /\ i \in 1..Len(b.of[h].batch) /\ j \in 1..Len(b.of[g].batch)
        /\ b.of[h].batch[i] = b.of[g].batch[j]
    BY <1>3, <1>8
  <2> QED
    BY <2>1 DEF TextsApart
<1>9. \A i, j \in 1..Len(r.ran) : r.ran[i] = r.ran[j] => i = j
  BY DEF TextsApart
<1> QED
  BY <1>5, <1>6, <1>7, <1>8, <1>9 DEF TextsApart

(* A text that is new to everybody is added.                                       *)
LEMMA TextAdded ==
  ASSUME NEW b \in Board, NEW r \in Board, TextsApart(b), r.ran = b.ran, r.steps = b.steps + 1, NEW h \in Handles,
         r.of[h].batch = Append(b.of[h].batch, b.steps), \A g \in Handles \ {h} : r.of[g].batch = b.of[g].batch
  PROVE  TextsApart(r)
<1>1. b.steps \in Nat /\ r.steps \in Nat
  BY DEF Board
<1>2. \A g \in Handles : b.of[g].batch \in Seq(Nat)
  BY DEF Board, Statement
<1>3. \A i \in 1..Len(b.ran) : b.ran[i] \in Nat
  BY SMTT(30) DEF Board
<1>4. /\ \A i \in 1..Len(b.ran) : b.ran[i] < b.steps
      /\ \A i, j \in 1..Len(b.ran) : b.ran[i] = b.ran[j] => i = j
      /\ \A g \in Handles : \A i \in 1..Len(b.of[g].batch) :
           b.of[g].batch[i] < b.steps /\ b.of[g].batch[i] \in Nat /\ \A j \in 1..Len(b.ran) : b.of[g].batch[i] # b.ran[j]
  <2>1. ASSUME NEW g \in Handles, NEW i \in 1..Len(b.of[g].batch)
        PROVE  b.of[g].batch[i] \in Nat
    BY ONLY <1>2, <2>1
  <2>2. /\ \A i \in 1..Len(b.ran) : b.ran[i] < b.steps
        /\ \A i, j \in 1..Len(b.ran) : b.ran[i] = b.ran[j] => i = j
        /\ \A g \in Handles : \A i \in 1..Len(b.of[g].batch) :
             b.of[g].batch[i] < b.steps /\ \A j \in 1..Len(b.ran) : b.of[g].batch[i] # b.ran[j]
    BY ONLY TextsApart(b), ZenonT(30) DEF TextsApart
  <2> QED
    BY ONLY <2>1, <2>2
<1>5. /\ Len(r.of[h].batch) = Len(b.of[h].batch) + 1 /\ Len(b.of[h].batch) \in Nat
      /\ r.of[h].batch[Len(b.of[h].batch) + 1] = b.steps
      /\ \A i \in 1..Len(b.of[h].batch) : r.of[h].batch[i] = b.of[h].batch[i]
  BY <1>2, SMTT(30)
(* every text is an old one, or the new one at the end of h's batch *)
<1>6. ASSUME NEW g \in Handles, NEW i \in 1..Len(r.of[g].batch)
      PROVE  \/ i \in 1..Len(b.of[g].batch) /\ r.of[g].batch[i] = b.of[g].batch[i]
             \/ g = h /\ i = Len(b.of[h].batch) + 1 /\ r.of[g].batch[i] = b.steps
  <2>1. CASE g = h
    <3>1. i \in 1..(Len(b.of[h].batch) + 1)
      BY <1>5, <2>1
    <3>2. i \in 1..Len(b.of[h].batch) \/ i = Len(b.of[h].batch) + 1
      BY <1>5, <3>1, SMTT(30)
    <3> QED
      BY <1>5, <2>1, <3>2
  <2>2. CASE g # h
    BY <2>2
  <2> QED
    BY <2>1, <2>2
<1>7. \A i \in 1..Len(r.ran) : r.ran[i] < r.steps
  BY <1>1, <1>3, <1>4
<1>8. ASSUME NEW g \in Handles, NEW i \in 1..Len(r.of[g].batch)
      PROVE  r.of[g].batch[i] < r.steps /\ \A j \in 1..Len(r.ran) : r.of[g].batch[i] # r.ran[j]
  <2>1. CASE i \in 1..Len(b.of[g].batch) /\ r.of[g].batch[i] = b.of[g].batch[i]
    <3>1. b.of[g].batch[i] < b.steps /\ b.of[g].batch[i] \in Nat /\ \A j \in 1..Len(b.ran) : b.of[g].batch[i] # b.ran[j]
      BY <1>4, <2>1
    <3> QED
      BY <1>1, <2>1, <3>1, SMTT(30)
  <2>2. CASE r.of[g].batch[i] = b.steps
    BY <1>1, <1>3, <1>4, <2>2
  <2> QED
    BY <1>6, <2>1, <2>2
<1>9. ASSUME NEW f \in Handles, NEW i \in 1..Len(r.of[f].batch), NEW g \in Handles, NEW j \in 1..Len(r.of[g].batch),
             r.of[f].batch[i] = r.of[g].batch[j]
      PROVE  f = g /\ i = j
  <2>1. CASE i \in 1..Len(b.of[f].batch) /\ r.of[f].batch[i] = b.of[f].batch[i]
    <3>1. ~(r.of[g].batch[j] = b.steps)
      <4>1. b.of[f].batch[i] < b.steps /\ b.of[f].batch[i] \in Nat
        BY <1>4, <2>1
      <4>2. b.of[f].batch[i] = r.of[g].batch[j]
        BY <1>9, <2>1
      <4> QED
        BY ONLY <1>1, <4>1, <4>2
    <3>2. j \in 1..Len(b.of[g].batch) /\ r.of[g].batch[j] = b.of[g].batch[j]
      BY <1>6, <3>1
    <3>3. b.of[f].batch[i] = b.of[g].batch[j]
      BY <1>9, <2>1, <3>2
    <3>4. \A x, y \in Handles : \A k \in 1..Len(b.of[x].batch), m \in 1..Len(b.of[y].batch) :
            b.of[x].batch[k] = b.of[y].batch[m] => x = y /\ k = m
      BY ONLY TextsApart(b), ZenonT(30) DEF TextsApart
    <3> QED
      BY ONLY <2>1, <3>2, <3>3, <3>4, f \in Handles, g \in Handles
  <2>2. CASE f = h /\ i = Len(b.of[h].batch) + 1 /\ r.of[f].batch[i] = b.steps
    <3>1. ~(j \in 1..Len(b.of[g].batch) /\ r.of[g].batch[j] = b.of[g].batch[j])
      BY <1>1, <1>4, <1>9, <2>2
    <3> QED
      BY <1>6, <2>2, <3>1
  <2> QED
    BY <1>6, <2>1, <2>2
<1> QED
  BY <1>4, <1>7, <1>8, <1>9 DEF TextsApart

(* A setter, addBatch or clearBatch of one statement.                              *)
LEMMA ChangedInv ==
  ASSUME Apart(board), NEW h \in Handles, NEW s \in Statement, Changed(h, s),
         s.current = board.of[h].current, s.released = board.of[h].released,
         s.fetchSize # 0 => s.scroll = "forward",
         s.batch = board.of[h].batch \/ s.batch = << >> \/ s.batch = Append(board.of[h].batch, board.steps)
  PROVE  /\ SettingsInv' /\ board'.sets = board.sets /\ board'.did = Nobody
         /\ board'.of[h] = s /\ \A g \in Handles \ {h} : board'.of[g] = board.of[g]
<1> USE DEF Apart
<1>1. PICK b : b = Stepped(board)
  OBVIOUS
<1>2. /\ b \in Board /\ b.of = board.of /\ b.sets = board.sets /\ b.limit = board.limit /\ b.known = board.known
      /\ b.stale = board.stale /\ b.ran = board.ran /\ b.steps = board.steps + 1 /\ b.did = Nobody
  BY <1>1, SteppedFields
<1>3. board' = Put(b, h, s)
  BY <1>1 DEF Changed, Put
<1>4. PICK r : r = board'
  OBVIOUS
<1>5. /\ r \in Board /\ r.of[h] = s /\ \A g \in Handles \ {h} : r.of[g] = board.of[g]
      /\ r.sets = board.sets /\ r.limit = board.limit /\ r.known = board.known /\ r.stale = board.stale
      /\ r.ran = board.ran /\ r.steps = board.steps + 1 /\ r.did = Nobody
  BY <1>2, <1>3, <1>4, PutFields
<1>6. SetsHaveTheirStatement(r)
  BY <1>5 DEF SetsHaveTheirStatement
<1>7. LimitIsKnown(r)
  BY <1>5 DEF LimitIsKnown
<1>8. ScrollsAreStored(r)
  BY <1>5 DEF ScrollsAreStored
<1>9. TextsApart(r)
  <2>1. CASE s.batch = Append(board.of[h].batch, board.steps)
    BY <1>5, <2>1, TextAdded
  <2>2. CASE s.batch = board.of[h].batch \/ s.batch = << >>
    <3>1. r.steps >= board.steps
      BY <1>5 DEF Board
    <3> QED
      BY <1>5, <2>2, <3>1, TextsKept
  <2> QED
    BY <2>1, <2>2
<1>10. Apart(r) /\ RanAsSet(r)
  BY <1>5, <1>6, <1>7, <1>8, <1>9 DEF RanAsSet
<1> QED
  BY <1>4, <1>5, <1>10 DEF SettingsInv

(* Nothing ends: no result set and no statement is closed.                         *)
NothingEnds ==
  board'.sets = board.sets /\ \A g \in Handles : board'.of[g].closed <=> board.of[g].closed

(* The setters keep what they have to keep, refused or not.                        *)
LEMMA SettersInv ==
  ASSUME Apart(board), NEW h \in Handles,
         \/ \E type \in Scrolls : SetResultSetType(h, type)
         \/ \E rows \in {MinInt, -1, 0, 2} : SetFetchSize(h, rows)
         \/ \E n \in {-1, 0, 1} : SetMaxRows(h, n)
         \/ \E n \in {-1, 3} : SetQueryTimeout(h, n)
         \/ CloseOnCompletion(h) \/ AddBatch(h) \/ ClearBatch(h)
  PROVE  SettingsInv' /\ NothingEnds
<1>1. PICK o : o = board.of[h]
  OBVIOUS
<1>2. o \in Statement /\ (o.fetchSize # 0 => o.scroll = "forward") /\ board.steps \in Nat
  BY <1>1 DEF Apart, Board, ScrollsAreStored
<1>3. ASSUME NEW s \in Statement, Changed(h, s), s.current = o.current, s.released = o.released,
             s.closed <=> o.closed, s.fetchSize # 0 => s.scroll = "forward",
             s.batch = o.batch \/ s.batch = << >> \/ s.batch = Append(o.batch, board.steps)
      PROVE  SettingsInv' /\ NothingEnds
  <2>1. /\ SettingsInv' /\ board'.sets = board.sets
        /\ board'.of[h] = s /\ \A g \in Handles \ {h} : board'.of[g] = board.of[g]
    BY <1>1, <1>3, ChangedInv
  <2> QED
    BY <1>1, <1>3, <2>1 DEF NothingEnds
<1>4. ASSUME NEW type \in Scrolls, SetResultSetType(h, type) PROVE SettingsInv' /\ NothingEnds
  <2>1. PICK s : s = WithResultSetType(o, type)
    OBVIOUS
  <2>2. Changed(h, s)
    BY <1>1, <1>4, <2>1 DEF SetResultSetType
  <2>3. /\ s \in Statement /\ s.current = o.current /\ s.released = o.released /\ s.closed = o.closed
        /\ s.batch = o.batch /\ (s.fetchSize # 0 => s.scroll = "forward")
    BY <1>2, <2>1 DEF WithResultSetType, Statement
  <2> QED
    BY <1>3, <2>2, <2>3
<1>5. ASSUME NEW rows \in {MinInt, -1, 0, 2}, SetFetchSize(h, rows) PROVE SettingsInv' /\ NothingEnds
  <2>1. PICK s : /\ Changed(h, s)
                 /\ s = IF (rows < 0 /\ rows # MinInt) \/ (rows # 0 /\ o.scroll # "forward") THEN o
                        ELSE [o EXCEPT !.fetchSize = IF rows = MinInt THEN 1 ELSE rows]
    BY <1>1, <1>5 DEF SetFetchSize
  <2>2. s = o \/ \E n \in Nat : s = [o EXCEPT !.fetchSize = n] /\ (n # 0 => o.scroll = "forward")
    BY <2>1 DEF MinInt
  <2>3. /\ s \in Statement /\ s.current = o.current /\ s.released = o.released /\ s.closed = o.closed
        /\ s.batch = o.batch /\ (s.fetchSize # 0 => s.scroll = "forward")
    <3>1. CASE s = o
      BY <1>2, <3>1
    <3>2. CASE s # o
      <4>1. PICK n \in Nat : s = [o EXCEPT !.fetchSize = n] /\ (n # 0 => o.scroll = "forward")
        BY <2>2, <3>2
      <4> QED
        BY <1>2, <4>1 DEF Statement
    <3> QED
      BY <3>1, <3>2
  <2> QED
    BY <1>3, <2>1, <2>3
<1>6. ASSUME NEW n \in {-1, 0, 1}, SetMaxRows(h, n) PROVE SettingsInv' /\ NothingEnds
  <2>1. PICK s : Changed(h, s) /\ s = IF n < 0 THEN o ELSE [o EXCEPT !.maxRows = n]
    BY <1>1, <1>6 DEF SetMaxRows
  <2>2. /\ s \in Statement /\ s.current = o.current /\ s.released = o.released /\ s.closed = o.closed
        /\ s.batch = o.batch /\ (s.fetchSize # 0 => s.scroll = "forward")
    <3>1. CASE n < 0
      BY <1>2, <2>1, <3>1
    <3>2. CASE ~(n < 0)
      <4>1. s = [o EXCEPT !.maxRows = n] /\ n \in Nat
        BY <2>1, <3>2
      <4> QED
        BY ONLY <1>2, <4>1 DEF Statement
    <3> QED
      BY <3>1, <3>2
  <2> QED
    BY <1>3, <2>1, <2>2
<1>7. ASSUME NEW n \in {-1, 3}, SetQueryTimeout(h, n) PROVE SettingsInv' /\ NothingEnds
  <2>1. PICK s : Changed(h, s) /\ s = IF n < 0 THEN o ELSE [o EXCEPT !.queryTimeout = n]
    BY <1>1, <1>7 DEF SetQueryTimeout
  <2>2. /\ s \in Statement /\ s.current = o.current /\ s.released = o.released /\ s.closed = o.closed
        /\ s.batch = o.batch /\ (s.fetchSize # 0 => s.scroll = "forward")
    BY <1>2, <2>1 DEF Statement
  <2> QED
    BY <1>3, <2>1, <2>2
<1>8. CASE CloseOnCompletion(h)
  <2>1. PICK s : Changed(h, s) /\ s = [o EXCEPT !.closeOnCompletion = TRUE]
    BY <1>1, <1>8 DEF CloseOnCompletion
  <2>2. /\ s \in Statement /\ s.current = o.current /\ s.released = o.released /\ s.closed = o.closed
        /\ s.batch = o.batch /\ (s.fetchSize # 0 => s.scroll = "forward")
    BY <1>2, <2>1 DEF Statement
  <2> QED
    BY <1>3, <2>1, <2>2
<1>9. ASSUME NEW t \in Seq(Nat), Changed(h, [o EXCEPT !.batch = t]), t = << >> \/ t = Append(o.batch, board.steps)
      PROVE  SettingsInv' /\ NothingEnds
  <2>1. PICK s : Changed(h, s) /\ s = [o EXCEPT !.batch = t]
    BY <1>9
  <2>2. /\ s \in Statement /\ s.current = o.current /\ s.released = o.released /\ s.closed = o.closed
        /\ s.batch = t /\ (s.fetchSize # 0 => s.scroll = "forward")
    BY <1>2, <2>1 DEF Statement
  <2> QED
    BY <1>3, <1>9, <2>1, <2>2
<1>10. CASE AddBatch(h)
  <2>1. PICK t : t = Append(o.batch, board.steps)
    OBVIOUS
  <2>2. o.batch \in Seq(Nat)
    BY <1>2 DEF Statement
  <2>3. t \in Seq(Nat)
    BY <1>2, <2>1, <2>2
  <2>4. Changed(h, [o EXCEPT !.batch = t])
    BY <1>1, <1>10, <2>1 DEF AddBatch
  <2> QED
    BY <1>9, <2>1, <2>3, <2>4
<1>11. CASE ClearBatch(h)
  <2>1. << >> \in Seq(Nat) /\ Changed(h, [o EXCEPT !.batch = << >>])
    BY <1>1, <1>11 DEF ClearBatch
  <2> QED
    BY <1>9, <2>1
<1> QED
  BY <1>4, <1>5, <1>6, <1>7, <1>8, <1>10, <1>11

-----------------------------------------------------------------------------
(* Executions                                                                      *)

(* An execution runs under the row limit of its statement, unless the protocol has  *)
(* been deceived by a reset.                                                       *)
LEMMA ProtocolFields ==
  ASSUME Apart(board), NEW n \in Nat, NEW r, r = ProtocolSetMaxRows(n)
  PROVE  /\ Apart(r) /\ r.of = board.of /\ r.sets = board.sets /\ r.ran = board.ran /\ r.steps = board.steps
         /\ r.limit = n \/ r.stale
<1> USE DEF Apart
<1>1. CASE board.known = n
  BY <1>1 DEF ProtocolSetMaxRows, LimitIsKnown
<1>2. CASE board.known # n
  <2>1. r = [board EXCEPT !.limit = n, !.known = n, !.stale = FALSE]
    BY <1>2 DEF ProtocolSetMaxRows
  <2>2. /\ r \in Board /\ r.of = board.of /\ r.sets = board.sets /\ r.ran = board.ran /\ r.steps = board.steps
        /\ r.limit = n /\ r.known = n
    BY <2>1 DEF Board
  <2>3. SetsHaveTheirStatement(r) /\ ScrollsAreStored(r)
    BY <2>2 DEF SetsHaveTheirStatement, ScrollsAreStored
  <2>4. LimitIsKnown(r)
    BY <2>2 DEF LimitIsKnown
  <2>5. TextsApart(r)
    BY <2>2 DEF TextsApart
  <2> QED
    BY <2>2, <2>3, <2>4, <2>5
<1> QED
  BY <1>1, <1>2

\* a board on which the next call has been the execution d
Noted(b, d) == [Stepped(b) EXCEPT !.did = d]

(* An execution is counted and noted.                                              *)
LEMMA NotedFields ==
  ASSUME NEW b, Apart(b), NEW d \in Execution, NEW r, r = Noted(b, d)
  PROVE  /\ Apart(r) /\ r.of = b.of /\ r.sets = b.sets /\ r.limit = b.limit
         /\ r.stale = b.stale /\ r.ran = b.ran /\ r.steps = b.steps + 1 /\ r.did = d
<1> USE DEF Apart
<1>1. PICK c : c = Stepped(b)
  OBVIOUS
<1>2. /\ c \in Board /\ c.of = b.of /\ c.sets = b.sets /\ c.limit = b.limit /\ c.known = b.known
      /\ c.stale = b.stale /\ c.ran = b.ran /\ c.steps = b.steps + 1
  BY <1>1, SteppedFields
<1>3. r = [c EXCEPT !.did = d]
  BY <1>1 DEF Noted
<1>4. /\ r \in Board /\ r.of = b.of /\ r.sets = b.sets /\ r.limit = b.limit /\ r.known = b.known
      /\ r.stale = b.stale /\ r.ran = b.ran /\ r.steps = b.steps + 1 /\ r.did = d
  BY <1>2, <1>3 DEF Board
<1>5. SetsHaveTheirStatement(r) /\ ScrollsAreStored(r) /\ LimitIsKnown(r)
  BY <1>4 DEF SetsHaveTheirStatement, ScrollsAreStored, LimitIsKnown
<1>6. TextsApart(r)
  <2>1. r.steps >= b.steps
    BY <1>4 DEF Board
  <2> QED
    BY <1>4, <2>1, TextsKept
<1> QED
  BY <1>4, <1>5, <1>6

(* An execution is not somebody else's, nor nobody's.                              *)
LEMMA SomebodyRan == \A d \in Execution : d # Nobody
BY SettingsAssumption DEF Execution, Nobody

(* What an execution finds when the limit has been sent and the old results gone.  *)
LEMMA ReadyFields ==
  ASSUME Apart(board), NEW h \in Handles, NEW b, b = NewResults(ProtocolSetMaxRows(board.of[h].maxRows), h)
  PROVE  /\ Apart(b) /\ b.ran = board.ran /\ b.steps = board.steps
         /\ b.limit = board.of[h].maxRows \/ b.stale
         /\ b.of[h].current = 0 /\ b.of[h].released = 0
         /\ \A g \in Handles :
              /\ b.of[g].maxRows = board.of[g].maxRows /\ b.of[g].queryTimeout = board.of[g].queryTimeout
              /\ b.of[g].batch = board.of[g].batch
              /\ b.of[g].closed <=> board.of[g].closed
<1>1. board.of[h].maxRows \in Nat
  BY DEF Apart, Board, Statement
<1>2. PICK p : p = ProtocolSetMaxRows(board.of[h].maxRows)
  OBVIOUS
<1>3. /\ Apart(p) /\ p.of = board.of /\ p.sets = board.sets /\ p.ran = board.ran /\ p.steps = board.steps
      /\ p.limit = board.of[h].maxRows \/ p.stale
  BY <1>1, <1>2, ProtocolFields
<1>4. b = NewResults(p, h)
  BY <1>2
<1>5. p \in Board /\ SetsHaveTheirStatement(p)
  BY <1>3 DEF Apart
<1>6. /\ Settles(p, b) /\ \A g \in Handles \ {h} : b.of[g] = p.of[g]
      /\ b.of[h].current = 0 /\ b.of[h].released = 0
      /\ (b.of[h].closed <=> p.of[h].closed)
  BY <1>4, <1>5, NewResultsFields
<1>7. Apart(b)
  BY <1>3, <1>6, SettledApart
<1>8. b.ran = board.ran /\ b.steps = board.steps /\ b.limit = p.limit /\ b.stale = p.stale
  BY <1>3, <1>6 DEF Settles
<1>9. ASSUME NEW g \in Handles
      PROVE  /\ b.of[g].maxRows = board.of[g].maxRows /\ b.of[g].queryTimeout = board.of[g].queryTimeout
             /\ b.of[g].batch = board.of[g].batch
             /\ b.of[g].closed <=> board.of[g].closed
  <2>1. /\ b.of[g].maxRows = p.of[g].maxRows /\ b.of[g].queryTimeout = p.of[g].queryTimeout
        /\ b.of[g].batch = p.of[g].batch
    BY <1>6 DEF Settles
  <2>2. b.of[g].closed <=> p.of[g].closed
    BY <1>6
  <2> QED
    BY <1>3, <2>1, <2>2
<1> QED
  BY <1>3, <1>6, <1>7, <1>8, <1>9

(* What was noted stays true while the settings stay.                              *)
LEMMA StillAsSet ==
  ASSUME NEW b, NEW r, b \in Board, RanAsSet(b), r.did = b.did, r.stale = b.stale,
         \A g \in Handles : r.of[g].maxRows = b.of[g].maxRows /\ r.of[g].queryTimeout = b.of[g].queryTimeout
  PROVE  RanAsSet(r)
<1>1. b.did # Nobody => b.did.by \in Handles
  BY DEF Board, Execution
<1> QED
  BY <1>1 DEF RanAsSet

(* Rows arrive.                                                                    *)
LEMMA WithRowsFields ==
  ASSUME NEW b, Apart(b), NEW h \in Handles, NEW r, r = WithRows(b, h), RanAsSet(b)
  PROVE  /\ Apart(r) /\ RanAsSet(r) /\ r.did = b.did
         /\ \A g \in Handles : r.of[g].closed <=> b.of[g].closed
<1>1. b.of[h] \in Statement /\ b.sets \in Seq(ResultSet) /\ b \in Board
  BY DEF Apart, Board
<1>2. Len(b.sets) \in Nat
  BY <1>1
<1>3. PICK n \in Nat : n = Len(b.sets) + 1
  BY <1>2
<1>4. PICK s : s = [b.of[h] EXCEPT !.current = n]
  OBVIOUS
<1>5. /\ s \in Statement /\ s.scroll = b.of[h].scroll /\ s.fetchSize = b.of[h].fetchSize /\ s.maxRows = b.of[h].maxRows
      /\ s.queryTimeout = b.of[h].queryTimeout /\ s.batch = b.of[h].batch /\ s.current = n
      /\ s.released = b.of[h].released /\ s.closed = b.of[h].closed
  BY <1>1, <1>4 DEF Statement
<1>6. PICK t : t = Append(b.sets, [by |-> h, closed |-> FALSE])
  OBVIOUS
<1>7. /\ t \in Seq(ResultSet) /\ Len(t) = n /\ t[n].by = h
      /\ \A i \in 1..Len(b.sets) : t[i] = b.sets[i]
  <2>1. [by |-> h, closed |-> FALSE] \in ResultSet
    BY DEF ResultSet
  <2> QED
    BY <1>1, <1>3, <1>6, <2>1
<1>8. PICK c : c = [b EXCEPT !.sets = t]
  OBVIOUS
<1>9. /\ c \in Board /\ c.of = b.of /\ c.sets = t /\ c.limit = b.limit /\ c.known = b.known /\ c.stale = b.stale
      /\ c.ran = b.ran /\ c.steps = b.steps /\ c.did = b.did
  BY <1>1, <1>7, <1>8 DEF Board
<1>10. r = Put(c, h, s)
  BY <1>1, <1>3, <1>4, <1>6, <1>8 DEF WithRows, Put, Board
<1>11. /\ r \in Board /\ r.of[h] = s /\ \A g \in Handles \ {h} : r.of[g] = b.of[g]
       /\ r.sets = t /\ r.limit = b.limit /\ r.known = b.known /\ r.stale = b.stale
       /\ r.ran = b.ran /\ r.steps = b.steps /\ r.did = b.did
  <2>1. s \in Statement
    BY <1>5
  <2> QED
    BY <1>9, <1>10, <2>1, PutFields
<1>12. SetsHaveTheirStatement(r)
  <2>1. ASSUME NEW g \in Handles, NEW k \in Nat, k # 0, k <= Len(b.sets), b.sets[k].by = g
        PROVE  k <= Len(r.sets) /\ r.sets[k].by = g
    BY <1>2, <1>3, <1>7, <1>11, <2>1
  <2>2. \A g \in Handles : b.of[g].current \in Nat /\ b.of[g].released \in Nat
    BY <1>1 DEF Board, Statement
  <2>3. ASSUME NEW g \in Handles, r.of[g].current # 0
        PROVE  r.of[g].current <= Len(r.sets) /\ r.sets[r.of[g].current].by = g
    <3>1. CASE g = h
      BY <1>5, <1>7, <1>11, <3>1
    <3>2. CASE g # h
      BY <1>11, <2>1, <2>2, <2>3, <3>2 DEF Apart, SetsHaveTheirStatement
    <3> QED
      BY <3>1, <3>2
  <2>4. ASSUME NEW g \in Handles, r.of[g].released # 0
        PROVE  r.of[g].released <= Len(r.sets) /\ r.sets[r.of[g].released].by = g
    <3>1. r.of[g].released = b.of[g].released
      BY <1>5, <1>11
    <3> QED
      BY <2>1, <2>2, <2>4, <3>1 DEF Apart, SetsHaveTheirStatement
  <2> QED
    BY <2>3, <2>4 DEF SetsHaveTheirStatement
<1>13. ScrollsAreStored(r) /\ LimitIsKnown(r)
  BY <1>5, <1>11 DEF Apart, ScrollsAreStored, LimitIsKnown
<1>14. TextsApart(r)
  <2>1. r.steps >= b.steps
    BY <1>1, <1>11 DEF Board
  <2>2. \A g \in Handles : r.of[g].batch = b.of[g].batch
    BY <1>5, <1>11
  <2> QED
    BY <1>1, <1>11, <2>1, <2>2, TextsKept DEF Apart
<1>15. RanAsSet(r)
  <2>1. \A g \in Handles : r.of[g].maxRows = b.of[g].maxRows /\ r.of[g].queryTimeout = b.of[g].queryTimeout
    BY <1>5, <1>11
  <2> QED
    BY <1>1, <1>11, <2>1, StillAsSet
<1> QED
  BY <1>5, <1>11, <1>12, <1>13, <1>14, <1>15 DEF Apart

(* A result set is handed out.                                                     *)
LEMMA ReleasedFields ==
  ASSUME NEW b, Apart(b), NEW h \in Handles, NEW r, r = ReleaseResultSet(b, h), RanAsSet(b)
  PROVE  /\ Apart(r) /\ RanAsSet(r) /\ r.did = b.did /\ r.sets = b.sets
         /\ \A g \in Handles : r.of[g].closed <=> b.of[g].closed
<1>1. b.of[h] \in Statement /\ b \in Board
  BY DEF Apart, Board
<1>2. PICK s : s = [b.of[h] EXCEPT !.released = b.of[h].current, !.current = 0]
  OBVIOUS
<1>3. /\ s \in Statement /\ s.scroll = b.of[h].scroll /\ s.fetchSize = b.of[h].fetchSize /\ s.maxRows = b.of[h].maxRows
      /\ s.queryTimeout = b.of[h].queryTimeout /\ s.batch = b.of[h].batch /\ s.current = 0
      /\ s.released = b.of[h].current /\ s.closed = b.of[h].closed
  BY <1>1, <1>2 DEF Statement
<1>4. r = Put(b, h, s)
  BY <1>1, <1>2 DEF ReleaseResultSet, Put, Board
<1>5. /\ r \in Board /\ r.of[h] = s /\ \A g \in Handles \ {h} : r.of[g] = b.of[g]
      /\ r.sets = b.sets /\ r.limit = b.limit /\ r.known = b.known /\ r.stale = b.stale
      /\ r.ran = b.ran /\ r.steps = b.steps /\ r.did = b.did
  <2>1. s \in Statement
    BY <1>3
  <2> QED
    BY <1>1, <1>4, <2>1, PutFields
<1>6. SetsHaveTheirStatement(r)
  BY <1>3, <1>5 DEF Apart, SetsHaveTheirStatement
<1>7. ScrollsAreStored(r) /\ LimitIsKnown(r)
  BY <1>3, <1>5 DEF Apart, ScrollsAreStored, LimitIsKnown
<1>8. TextsApart(r)
  <2>1. r.steps >= b.steps
    BY <1>1, <1>5 DEF Board
  <2>2. \A g \in Handles : r.of[g].batch = b.of[g].batch
    BY <1>3, <1>5
  <2> QED
    BY <1>1, <1>5, <2>1, <2>2, TextsKept DEF Apart
<1>9. RanAsSet(r)
  <2>1. \A g \in Handles : r.of[g].maxRows = b.of[g].maxRows /\ r.of[g].queryTimeout = b.of[g].queryTimeout
    BY <1>3, <1>5
  <2> QED
    BY <1>1, <1>5, <2>1, StillAsSet
<1> QED
  BY <1>3, <1>5, <1>6, <1>7, <1>8, <1>9 DEF Apart

(* An execution runs as its statement is set, and closes no statement.             *)
LEMMA ExecutedFields ==
  ASSUME Apart(board), NEW h \in Handles, NEW keys \in BOOLEAN, NEW answer, NEW r, r = ExecuteInternal(h, keys, answer)
  PROVE  /\ Apart(r) /\ RanAsSet(r) /\ r.did # Nobody
         /\ \A g \in Handles : r.of[g].closed <=> board.of[g].closed
<1>1. PICK s : s = board.of[h]
  OBVIOUS
<1>2. s \in Statement /\ (s.fetchSize # 0 => s.scroll = "forward")
  BY <1>1 DEF Apart, Board, ScrollsAreStored
<1>3. PICK b : b = NewResults(ProtocolSetMaxRows(board.of[h].maxRows), h)
  OBVIOUS
<1>4. /\ Apart(b)
      /\ b.limit = s.maxRows \/ b.stale
      /\ b.of[h].maxRows = s.maxRows /\ b.of[h].queryTimeout = s.queryTimeout
      /\ \A g \in Handles : b.of[g].closed <=> board.of[g].closed
  BY <1>1, <1>3, ReadyFields
<1>5. b.limit \in Nat
  BY <1>4 DEF Apart, Board
<1>6. PICK d : d = Ran(h, FALSE, b.limit, GetTimeoutSql(s), s.fetchSize, keys)
  OBVIOUS
<1>7. /\ d \in Execution /\ d.by = h /\ d.limit = b.limit /\ d.fetchSize = s.fetchSize /\ d.scroll = s.scroll
      /\ d.time = GetTimeoutSql(s)
  <2>1. GetTimeoutSql(s) \in Nat
    BY <1>2 DEF GetTimeoutSql, Statement
  <2> QED
    BY <1>1, <1>2, <1>5, <1>6, <2>1 DEF Ran, Execution, Statement
<1>8. PICK c : c = Noted(b, d)
  OBVIOUS
<1>9. Apart(c) /\ c.of = b.of /\ c.stale = b.stale /\ c.did = d
  BY <1>4, <1>7, <1>8, NotedFields
<1>10. RanAsSet(c)
  BY <1>2, <1>4, <1>7, <1>9 DEF RanAsSet, GetTimeoutSql
<1>11. r = IF answer = "rows" THEN WithRows(c, h) ELSE c
  BY <1>1, <1>3, <1>6, <1>8 DEF ExecuteInternal, Noted
<1>12. d # Nobody
  BY <1>7, SomebodyRan
<1>13. CASE answer = "rows"
  <2>1. r = WithRows(c, h)
    BY <1>11, <1>13
  <2>2. /\ Apart(r) /\ RanAsSet(r) /\ r.did = c.did
        /\ \A g \in Handles : r.of[g].closed <=> c.of[g].closed
    BY <1>9, <1>10, <2>1, WithRowsFields
  <2> QED
    BY <1>4, <1>9, <1>12, <2>2
<1>14. CASE answer # "rows"
  BY <1>4, <1>9, <1>10, <1>11, <1>12, <1>14
<1> QED
  BY <1>13, <1>14

-----------------------------------------------------------------------------
(* The steps                                                                       *)

(* No statement is closed, and the step is an execution.                           *)
RunsOnly ==
  board'.did # Nobody /\ \A g \in Handles : board'.of[g].closed <=> board.of[g].closed

(* Executions of one text, with what they hand out.                                *)
LEMMA ExecutesInv ==
  ASSUME Apart(board), NEW h \in Handles,
         \/ \E form \in {"plain", "columns"} : ExecuteUpdate(h, form, "count")
         \/ \E answer \in {"rows", "error"} : Executes(h, "plain", answer) \/ ExecuteQuery(h, answer)
  PROVE  SettingsInv' /\ RunsOnly
<1>1. PICK r : r = board'
  OBVIOUS
<1>2. ASSUME NEW keys \in BOOLEAN, NEW answer, r = ExecuteInternal(h, keys, answer) PROVE SettingsInv' /\ RunsOnly
  BY <1>1, <1>2, ExecutedFields DEF SettingsInv, RunsOnly
<1>3. \A form : AsksForKeys(form) \in BOOLEAN
  BY DEF AsksForKeys
<1>4. ASSUME NEW answer, ExecuteQuery(h, answer) PROVE SettingsInv' /\ RunsOnly
  <2>1. PICK b : b = ExecuteInternal(h, FALSE, answer)
    OBVIOUS
  <2>2. /\ Apart(b) /\ RanAsSet(b) /\ b.did # Nobody
        /\ \A g \in Handles : b.of[g].closed <=> board.of[g].closed
    BY <2>1, ExecutedFields
  <2>3. r = ReleaseResultSet(b, h)
    BY <1>1, <1>4, <2>1 DEF ExecuteQuery
  <2>4. /\ Apart(r) /\ RanAsSet(r) /\ r.did = b.did
        /\ \A g \in Handles : r.of[g].closed <=> b.of[g].closed
    BY <2>2, <2>3, ReleasedFields
  <2> QED
    BY <1>1, <2>2, <2>4 DEF SettingsInv, RunsOnly
<1>5. ASSUME NEW form, ExecuteUpdate(h, form, "count") PROVE SettingsInv' /\ RunsOnly
  <2>1. r = ExecuteInternal(h, AsksForKeys(form), "count")
    BY <1>1, <1>5 DEF ExecuteUpdate
  <2> QED
    BY <1>2, <1>3, <2>1
<1>6. ASSUME NEW answer, Executes(h, "plain", answer) PROVE SettingsInv' /\ RunsOnly
  <2>1. r = ExecuteInternal(h, AsksForKeys("plain"), answer)
    BY <1>1, <1>6 DEF Executes
  <2> QED
    BY <1>2, <1>3, <2>1
<1> QED
  BY <1>4, <1>5, <1>6

(* A call that only counts.                                                        *)
LEMMA SteppedApart ==
  ASSUME NEW b, Apart(b), NEW r, r = Stepped(b)
  PROVE  /\ Apart(r) /\ RanAsSet(r) /\ r.of = b.of /\ r.sets = b.sets /\ r.did = Nobody
<1> USE DEF Apart
<1>1. /\ r \in Board /\ r.of = b.of /\ r.sets = b.sets /\ r.limit = b.limit /\ r.known = b.known
      /\ r.stale = b.stale /\ r.ran = b.ran /\ r.steps = b.steps + 1 /\ r.did = Nobody
  BY SteppedFields
<1>2. SetsHaveTheirStatement(r) /\ ScrollsAreStored(r) /\ LimitIsKnown(r)
  BY <1>1 DEF SetsHaveTheirStatement, ScrollsAreStored, LimitIsKnown
<1>3. r.steps >= b.steps
  BY <1>1 DEF Board
<1>4. TextsApart(r)
  BY <1>1, <1>3, TextsKept
<1>5. RanAsSet(r)
  BY <1>1 DEF RanAsSet
<1> QED
  BY <1>1, <1>2, <1>4, <1>5

(* getResultSet                                                                    *)
LEMMA GetResultSetInv ==
  ASSUME Apart(board), NEW h \in Handles, GetResultSet(h)
  PROVE  SettingsInv' /\ NothingEnds
<1>1. PICK r : r = board'
  OBVIOUS
<1>2. PICK b : b = Stepped(board)
  OBVIOUS
<1>3. Apart(b) /\ RanAsSet(b) /\ b.of = board.of /\ b.sets = board.sets
  BY <1>2, SteppedApart
<1>4. r = ReleaseResultSet(b, h)
  BY <1>1, <1>2 DEF GetResultSet
<1>5. /\ Apart(r) /\ RanAsSet(r) /\ r.sets = b.sets
      /\ \A g \in Handles : r.of[g].closed <=> b.of[g].closed
  BY <1>3, <1>4, ReleasedFields
<1> QED
  BY <1>1, <1>3, <1>5 DEF SettingsInv, NothingEnds

(* A sequence of numbers with the first n of another one after it: where its       *)
(* elements come from.                                                             *)
LEMMA Joined ==
  ASSUME NEW a \in Seq(Nat), NEW q \in Seq(Nat), NEW n \in 0..Len(q), NEW r, r = a \o SubSeq(q, 1, n)
  PROVE  \A i \in 1..Len(r) :
           /\ i \in Int
           /\ \/ i \in 1..Len(a) /\ r[i] = a[i]
              \/ i - Len(a) \in 1..Len(q) /\ r[i] = q[i - Len(a)]
<1>1. PICK t : t = SubSeq(q, 1, n)
  OBVIOUS
<1>2. n \in Nat /\ n <= Len(q) /\ Len(q) \in Nat /\ Len(a) \in Nat
  OBVIOUS
<1>3. t \in Seq(Nat) /\ Len(t) = n /\ \A i \in 1..n : t[i] = q[i]
  BY <1>1, <1>2
<1>4. r = a \o t
  BY <1>1
<1>5. Len(r) = Len(a) + n /\ \A i \in 1..Len(r) : r[i] = IF i <= Len(a) THEN a[i] ELSE t[i - Len(a)]
  BY <1>3, <1>4
<1>6. ASSUME NEW i \in 1..Len(r)
      PROVE  /\ i \in Int
             /\ \/ i \in 1..Len(a) /\ r[i] = a[i]
                \/ i - Len(a) \in 1..Len(q) /\ r[i] = q[i - Len(a)]
  <2>1. i \in Int /\ 1 <= i /\ i <= Len(a) + n
    BY <1>2, <1>5
  <2>2. CASE i <= Len(a)
    BY <1>5, <2>1, <2>2
  <2>3. CASE ~(i <= Len(a))
    <3>1. i - Len(a) \in 1..n /\ i - Len(a) \in 1..Len(q)
      BY ONLY <1>2, <2>1, <2>3
    <3> QED
      BY <1>3, <1>5, <2>1, <2>3, <3>1
  <2> QED
    BY <2>2, <2>3
<1> QED
  BY <1>6

(* The texts that a batch ran are in no batch any more: they moved.                *)
LEMMA TextsRan ==
  ASSUME NEW b \in Board, NEW r \in Board, TextsApart(b), NEW h \in Handles, NEW n \in 0..Len(b.of[h].batch),
         r.ran = b.ran \o SubSeq(b.of[h].batch, 1, n), r.steps = b.steps,
         r.of[h].batch = << >>, \A g \in Handles \ {h} : r.of[g].batch = b.of[g].batch
  PROVE  TextsApart(r)
<1>1. b.ran \in Seq(Nat) /\ b.of[h].batch \in Seq(Nat)
  BY DEF Board, Statement
<1>2. PICK q : q = b.of[h].batch
  OBVIOUS
<1>3. PICK m : m = Len(b.ran)
  OBVIOUS
<1>4. m \in Nat
  BY <1>1, <1>3
<1>5. r.ran = b.ran \o SubSeq(q, 1, n) /\ q \in Seq(Nat) /\ n \in 0..Len(q)
  BY <1>1, <1>2
<1>10. \A i \in 1..Len(r.ran) :
         /\ i \in Int
         /\ \/ i \in 1..m /\ r.ran[i] = b.ran[i]
            \/ i - m \in 1..Len(q) /\ r.ran[i] = q[i - m]
  <2>1. \A a \in Seq(Nat) : \A z : z = a \o SubSeq(q, 1, n) =>
          \A i \in 1..Len(z) :
            /\ i \in Int
            /\ \/ i \in 1..Len(a) /\ z[i] = a[i]
               \/ i - Len(a) \in 1..Len(q) /\ z[i] = q[i - Len(a)]
    BY <1>5, Joined
  <2> QED
    BY <1>1, <1>3, <1>5, <2>1
<1>11. /\ \A i \in 1..m : b.ran[i] < b.steps
       /\ \A i, j \in 1..m : b.ran[i] = b.ran[j] => i = j
       /\ \A i \in 1..Len(q) : q[i] < b.steps /\ \A j \in 1..m : q[i] # b.ran[j]
       /\ \A i, j \in 1..Len(q) : q[i] = q[j] => i = j
  BY <1>2, <1>3 DEF TextsApart
<1>12. \A i \in 1..Len(r.ran) : r.ran[i] < r.steps
  BY <1>10, <1>11
<1>13. ASSUME NEW i \in 1..Len(r.ran), NEW j \in 1..Len(r.ran), r.ran[i] = r.ran[j] PROVE i = j
  <2>1. i \in Int /\ j \in Int
    BY <1>10
  <2>2. \/ i \in 1..m /\ r.ran[i] = b.ran[i]
        \/ i - m \in 1..Len(q) /\ r.ran[i] = q[i - m]
    BY <1>10
  <2>3. \/ j \in 1..m /\ r.ran[j] = b.ran[j]
        \/ j - m \in 1..Len(q) /\ r.ran[j] = q[j - m]
    BY <1>10
  <2>4. CASE i \in 1..m /\ r.ran[i] = b.ran[i] /\ j \in 1..m /\ r.ran[j] = b.ran[j]
    BY <1>11, <1>13, <2>4
  <2>5. CASE i \in 1..m /\ r.ran[i] = b.ran[i] /\ j - m \in 1..Len(q) /\ r.ran[j] = q[j - m]
    BY <1>11, <1>13, <2>5
  <2>6. CASE i - m \in 1..Len(q) /\ r.ran[i] = q[i - m] /\ j \in 1..m /\ r.ran[j] = b.ran[j]
    <3>1. q[i - m] # b.ran[j]
      BY ONLY <1>11, <2>6
    <3> QED
      BY ONLY <1>13, <2>6, <3>1
  <2>7. CASE i - m \in 1..Len(q) /\ r.ran[i] = q[i - m] /\ j - m \in 1..Len(q) /\ r.ran[j] = q[j - m]
    <3>1. i - m = j - m
      BY <1>11, <1>13, <2>7
    <3> QED
      BY ONLY <1>4, <2>1, <3>1
  <2> QED
    BY <2>2, <2>3, <2>4, <2>5, <2>6, <2>7
<1>14. \A g \in Handles : \A i \in 1..Len(r.of[g].batch) :
         g # h /\ r.of[g].batch = b.of[g].batch /\ i \in 1..Len(b.of[g].batch)
  OBVIOUS
<1>15. ASSUME NEW g \in Handles, NEW i \in 1..Len(r.of[g].batch)
       PROVE  /\ r.of[g].batch[i] < r.steps
              /\ \A j \in 1..Len(r.ran) : r.of[g].batch[i] # r.ran[j]
  <2>1. g # h /\ r.of[g].batch = b.of[g].batch /\ i \in 1..Len(b.of[g].batch)
    BY <1>14
  <2>2. /\ b.of[g].batch[i] < b.steps
        /\ \A j \in 1..m : b.of[g].batch[i] # b.ran[j]
        /\ \A j \in 1..Len(q) : b.of[g].batch[i] # q[j]
    BY <1>2, <1>3, <2>1 DEF TextsApart
  <2>3. ASSUME NEW j \in 1..Len(r.ran) PROVE b.of[g].batch[i] # r.ran[j]
    <3>1. \/ j \in 1..m /\ r.ran[j] = b.ran[j]
          \/ j - m \in 1..Len(q) /\ r.ran[j] = q[j - m]
      BY <1>10
    <3> QED
      BY <2>2, <3>1
  <2> QED
    BY <2>1, <2>2, <2>3
<1>16. ASSUME NEW f \in Handles, NEW i \in 1..Len(r.of[f].batch), NEW g \in Handles, NEW j \in 1..Len(r.of[g].batch),
              r.of[f].batch[i] = r.of[g].batch[j]
       PROVE  f = g /\ i = j
  <2>1. /\ r.of[f].batch = b.of[f].batch /\ i \in 1..Len(b.of[f].batch)
        /\ r.of[g].batch = b.of[g].batch /\ j \in 1..Len(b.of[g].batch)
    BY <1>14
  <2> QED
    BY <1>16, <2>1 DEF TextsApart
<1>17. \A i, j \in 1..Len(r.ran) : r.ran[i] = r.ran[j] => i = j
  BY <1>13
<1>18. \A f \in Handles : \A i \in 1..Len(r.of[f].batch) :
         \A g \in Handles : \A j \in 1..Len(r.of[g].batch) : r.of[f].batch[i] = r.of[g].batch[j] => f = g /\ i = j
  BY <1>16
<1>19. \A g \in Handles : \A i \in 1..Len(r.of[g].batch) :
         r.of[g].batch[i] < r.steps /\ \A j \in 1..Len(r.ran) : r.of[g].batch[i] # r.ran[j]
  BY <1>15
<1> QED
  BY ONLY <1>12, <1>17, <1>18, <1>19 DEF TextsApart

(* The text batch: the statement has no batch when it is over, however it ended.   *)
LEMMA ExecuteBatchInv ==
  ASSUME Apart(board), NEW h \in Handles, ExecuteBatch(h)
  PROVE  SettingsInv' /\ RunsOnly
<1>1. PICK s : s = board.of[h]
  OBVIOUS
<1>2. s \in Statement
  BY <1>1 DEF Apart, Board
<1>3. PICK b : b = NewResults(ProtocolSetMaxRows(board.of[h].maxRows), h)
  OBVIOUS
<1>4. /\ Apart(b) /\ b.ran = board.ran /\ b.steps = board.steps
      /\ b.limit = s.maxRows \/ b.stale
      /\ b.of[h].maxRows = s.maxRows /\ b.of[h].batch = s.batch
      /\ \A g \in Handles : b.of[g].closed <=> board.of[g].closed
  BY <1>1, <1>3, ReadyFields
<1>5. PICK d : d = Ran(h, TRUE, b.limit, 0, 0, TRUE)
  OBVIOUS
<1>6. d \in Execution /\ d.by = h /\ d.limit = b.limit /\ d.fetchSize = 0 /\ d.batch = TRUE
  <2>1. b.limit \in Nat /\ s.scroll \in Scrolls
    BY <1>2, <1>4 DEF Apart, Board, Statement
  <2> QED
    BY <1>1, <1>5, <2>1 DEF Ran, Execution
<1>7. PICK c : c = Noted(b, d)
  OBVIOUS
<1>8. Apart(c) /\ c.of = b.of /\ c.limit = b.limit /\ c.stale = b.stale /\ c.ran = b.ran /\ c.did = d
  BY <1>4, <1>6, <1>7, NotedFields
<1>9. c \in Board /\ c.of[h] \in Statement /\ c.of[h].batch \in Seq(Nat)
  BY <1>8 DEF Apart, Board, Statement
<1>10. PICK n \in 0..Len(s.batch) :
         board' = [Stepped(b) EXCEPT !.ran = @ \o SubSeq(s.batch, 1, n), !.of[h] = BatchEpilogue(@, n), !.did = d]
  BY <1>1, <1>3, <1>5 DEF ExecuteBatch
<1>11. PICK e : e = [c.of[h] EXCEPT !.batch = << >>]
  OBVIOUS
<1>12. /\ e \in Statement /\ e.batch = << >> /\ e.maxRows = c.of[h].maxRows /\ e.queryTimeout = c.of[h].queryTimeout
       /\ e.current = c.of[h].current /\ e.released = c.of[h].released /\ e.fetchSize = c.of[h].fetchSize
       /\ e.scroll = c.of[h].scroll /\ e.closed = c.of[h].closed
  <2>1. PICK z : z = << >>
    OBVIOUS
  <2>2. z \in Seq(Nat) /\ e = [c.of[h] EXCEPT !.batch = z]
    BY <1>11, <2>1
  <2> QED
    BY ONLY <1>9, <2>1, <2>2 DEF Statement
<1>13. PICK t : t = c.ran \o SubSeq(c.of[h].batch, 1, n)
  OBVIOUS
<1>14. n \in 0..Len(c.of[h].batch)
  BY <1>4, <1>8, <1>10
<1>15. t \in Seq(Nat)
  <2>1. c.ran \in Seq(Nat)
    BY <1>9 DEF Board
  <2>2. SubSeq(c.of[h].batch, 1, n) \in Seq(Nat)
    BY <1>9, <1>14, SMTT(30)
  <2> QED
    BY <1>13, <2>1, <2>2
<1>16. PICK f : f = [c EXCEPT !.ran = t]
  OBVIOUS
<1>17. /\ f \in Board /\ f.of = c.of /\ f.sets = c.sets /\ f.limit = c.limit /\ f.known = c.known /\ f.stale = c.stale
       /\ f.ran = t /\ f.steps = c.steps /\ f.did = d
  BY <1>8, <1>9, <1>15, <1>16 DEF Board
<1>18. PICK r : r = board'
  OBVIOUS
<1>19. r = Put(f, h, e)
  <2>1. PICK a : a = Stepped(b)
    OBVIOUS
  <2>2. a \in Board /\ a.of = b.of /\ a.ran = b.ran
    BY <1>4, <2>1, SteppedFields DEF Apart
  <2>3. c = [a EXCEPT !.did = d]
    BY <1>7, <2>1 DEF Noted
  <2>4. r = [a EXCEPT !.ran = t, !.of[h] = e, !.did = d]
    BY <1>4, <1>8, <1>10, <1>11, <1>13, <1>18, <2>1, <2>2 DEF BatchEpilogue, Board
  <2> QED
    BY <1>16, <2>2, <2>3, <2>4 DEF Put, Board
<1>20. /\ r \in Board /\ r.of[h] = e /\ \A g \in Handles \ {h} : r.of[g] = c.of[g]
       /\ r.sets = c.sets /\ r.limit = c.limit /\ r.known = c.known /\ r.stale = c.stale
       /\ r.ran = t /\ r.steps = c.steps /\ r.did = d
  <2>1. e \in Statement
    BY <1>12
  <2> QED
    BY <1>17, <1>19, <2>1, PutFields
<1>21. TextsApart(r)
  <2>1. TextsApart(c)
    BY <1>8 DEF Apart
  <2>2. r.of[h].batch = << >> /\ \A g \in Handles \ {h} : r.of[g].batch = c.of[g].batch
    BY <1>12, <1>20
  <2>3. r.ran = c.ran \o SubSeq(c.of[h].batch, 1, n)
    BY <1>13, <1>20
  <2> QED
    BY <1>9, <1>14, <1>20, <2>1, <2>2, <2>3, TextsRan
<1>22. SetsHaveTheirStatement(r)
  <2>1. \A g \in Handles : r.of[g].current = c.of[g].current /\ r.of[g].released = c.of[g].released
    BY <1>12, <1>20
  <2> QED
    BY <1>8, <1>20, <2>1 DEF Apart, SetsHaveTheirStatement
<1>23. ScrollsAreStored(r) /\ LimitIsKnown(r)
  BY <1>8, <1>12, <1>20 DEF Apart, ScrollsAreStored, LimitIsKnown
<1>24. RanAsSet(r)
  BY <1>4, <1>6, <1>8, <1>12, <1>20 DEF RanAsSet
<1>25. r.did # Nobody
  BY <1>6, <1>20, SomebodyRan
<1>26. \A g \in Handles : r.of[g].closed <=> board.of[g].closed
  BY <1>4, <1>8, <1>12, <1>20
<1> QED
  BY <1>18, <1>20, <1>21, <1>22, <1>23, <1>24, <1>25, <1>26 DEF SettingsInv, Apart, RunsOnly

-----------------------------------------------------------------------------
(* Closing                                                                         *)

\* What CompletionCloses says of one statement in one step
LastSetEnds(h) ==
  LET s == board.of[h]
  IN  s.released # 0 /\ s.current = 0 /\ ~board.sets[s.released].closed /\ board'.sets[s.released].closed
ClosesRightly(h) ==
  /\ board.of[h].closeOnCompletion /\ LastSetEnds(h) /\ board'.did = Nobody /\ board'.of[h].closeOnCompletion
       => board'.of[h].closed
  /\ ~board.of[h].closed /\ board'.of[h].closed => LastSetEnds(h) \/ CloseByCall(h)

(* close of a statement ends its own result set and no other.                      *)
LEMMA CloseByCallInv ==
  ASSUME Apart(board), NEW h \in Handles, CloseByCall(h)
  PROVE  SettingsInv' /\ \A g \in Handles : ClosesRightly(g)
<1>1. PICK r : r = board'
  OBVIOUS
<1>2. PICK b : b = Stepped(board)
  OBVIOUS
<1>3. Apart(b) /\ RanAsSet(b) /\ b.of = board.of /\ b.sets = board.sets /\ b.did = Nobody
  BY <1>2, SteppedApart
<1>4. r = Closed(b, h)
  BY <1>1, <1>2 DEF CloseByCall
<1>5. /\ Settles(b, r) /\ \A g \in Handles \ {h} : r.of[g] = b.of[g]
      /\ r.of[h].closed
      /\ \A i \in 1..Len(b.sets) : r.sets[i].closed <=> (i = b.of[h].released \/ b.sets[i].closed)
  BY <1>3, <1>4, ClosedFields DEF Apart
<1>6. Apart(r)
  BY <1>3, <1>5, SettledApart
<1>7. RanAsSet(r)
  BY <1>3, <1>5 DEF Settles, RanAsSet
<1>8. ASSUME NEW g \in Handles PROVE ClosesRightly(g)
  <2>1. CASE g = h
    BY <1>1, <1>5, <2>1 DEF ClosesRightly
  <2>2. CASE g # h
    <3>1. ASSUME LastSetEnds(g) PROVE FALSE
      <4>1. PICK i : i = board.of[g].released
        OBVIOUS
      <4>2. i # 0 /\ ~board.sets[i].closed /\ r.sets[i].closed
        BY <1>1, <3>1, <4>1 DEF LastSetEnds
      <4>3. i \in Nat /\ i <= Len(board.sets) /\ board.sets[i].by = g /\ Len(board.sets) \in Nat
        <5>1. board \in Board /\ SetsHaveTheirStatement(board)
          BY DEF Apart
        <5>2. i <= Len(board.sets) /\ board.sets[i].by = g
          BY ONLY <4>1, <4>2, <5>1, g \in Handles DEF SetsHaveTheirStatement
        <5>3. board.of[g] \in Statement
          BY ONLY <5>1, g \in Handles DEF Board
        <5>4. i \in Nat
          BY ONLY <4>1, <5>3 DEF Statement
        <5>5. Len(board.sets) \in Nat
          BY ONLY <5>1 DEF Board
        <5> QED
          BY ONLY <5>2, <5>4, <5>5
      <4>4. i \in 1..Len(b.sets)
        BY <1>3, <4>2, <4>3
      <4>5. i = board.of[h].released
        BY <1>3, <1>5, <4>2, <4>4
      <4>6. board.sets[i].by = h
        BY <4>2, <4>5 DEF Apart, SetsHaveTheirStatement
      <4> QED
        BY <2>2, <4>3, <4>6
    <3>2. r.of[g] = board.of[g]
      BY <1>3, <1>5, <2>2
    <3> QED
      BY <1>1, <3>1, <3>2 DEF ClosesRightly
  <2> QED
    BY <2>1, <2>2
<1> QED
  BY <1>1, <1>6, <1>7, <1>8 DEF SettingsInv

(* close of a result set ends the statement when it is the statement's last one.   *)
LEMMA CloseResultSetInv ==
  ASSUME Apart(board), NEW k \in 1..Len(board.sets), CloseResultSet(k)
  PROVE  SettingsInv' /\ \A g \in Handles : ClosesRightly(g)
<1>1. PICK r : r = board'
  OBVIOUS
<1>2. PICK b : b = Stepped(board)
  OBVIOUS
<1>3. Apart(b) /\ RanAsSet(b) /\ b.of = board.of /\ b.sets = board.sets /\ b.did = Nobody
  BY <1>2, SteppedApart
<1>4. r = CloseResult(b, k)
  BY <1>1, <1>2 DEF CloseResultSet
<1>5. PICK h : h = b.sets[k].by
  OBVIOUS
<1>6. k \in 1..Len(b.sets) /\ b \in Board /\ k \in Nat /\ k # 0
  BY <1>3 DEF Apart, Board
<1>7. /\ h \in Handles /\ Settles(b, r) /\ \A g \in Handles \ {h} : r.of[g] = b.of[g]
      /\ ~Completes(b.of[h], k) => r.of = b.of
      /\ Completes(b.of[h], k) => r.of[h].closed
      /\ r.sets[k].closed
      /\ \A i \in 1..Len(b.sets) :
           r.sets[i].closed <=> (i = k \/ (Completes(b.of[h], k) /\ i = b.of[h].released) \/ b.sets[i].closed)
  BY <1>4, <1>5, <1>6, CloseResultFields
<1>8. Apart(r)
  BY <1>3, <1>7, SettledApart
<1>9. RanAsSet(r)
  BY <1>3, <1>7 DEF Settles, RanAsSet
<1>10. ASSUME NEW g \in Handles, board.of[g].closeOnCompletion, LastSetEnds(g) PROVE board'.of[g].closed
  <2>1. PICK i : i = board.of[g].released
    OBVIOUS
  <2>2. i # 0 /\ board.of[g].current = 0 /\ ~board.sets[i].closed /\ r.sets[i].closed
    BY <1>1, <1>10, <2>1 DEF LastSetEnds
  <2>3. i \in Nat /\ i <= Len(board.sets) /\ board.sets[i].by = g /\ Len(board.sets) \in Nat
    BY <2>1, <2>2 DEF Apart, Board, Statement, SetsHaveTheirStatement
  <2>4. i \in 1..Len(b.sets)
    BY <1>3, <2>2, <2>3
  <2>5. i = k \/ (Completes(b.of[h], k) /\ i = b.of[h].released)
    BY <1>3, <1>7, <2>2, <2>4
  <2>6. CASE Completes(b.of[h], k) /\ i = b.of[h].released
    <3>1. board.sets[i].by = h
      BY <1>3, <1>7, <2>2, <2>6 DEF Apart, SetsHaveTheirStatement
    <3> QED
      BY <1>1, <1>7, <2>3, <2>6, <3>1
  <2>7. CASE i = k
    <3>1. g = h
      BY <1>3, <1>5, <2>3, <2>7
    <3>2. ResultSetOf(b.of[h]) = k
      BY <1>3, <2>1, <2>2, <2>7, <3>1 DEF ResultSetOf
    <3>3. CASE b.of[h].closed
      <4>1. ~Completes(b.of[h], k)
        BY <3>3 DEF Completes
      <4> QED
        BY <1>1, <1>7, <3>1, <3>3, <4>1
    <3>4. CASE ~b.of[h].closed
      <4>1. Completes(b.of[h], k)
        BY <1>3, <1>10, <3>1, <3>2, <3>4 DEF Completes
      <4> QED
        BY <1>1, <1>7, <3>1, <4>1
    <3> QED
      BY <3>3, <3>4
  <2> QED
    BY <2>5, <2>6, <2>7
<1>11. ASSUME NEW g \in Handles, ~board.of[g].closed, board'.of[g].closed PROVE LastSetEnds(g)
  <2>1. g = h /\ Completes(b.of[h], k)
    BY <1>1, <1>3, <1>7, <1>11
  <2>2. k = ResultSetOf(board.of[g]) /\ k # board.of[g].current /\ ~board.sets[k].closed
    BY <1>3, <1>5, <2>1 DEF Completes, CloseResultSet
  <2>3. board.of[g].current = 0 /\ k = board.of[g].released
    BY <2>2 DEF ResultSetOf
  <2> QED
    BY <1>1, <1>6, <1>7, <2>2, <2>3 DEF LastSetEnds
<1> QED
  BY <1>1, <1>8, <1>9, <1>10, <1>11 DEF SettingsInv, ClosesRightly

(* A new statement of either type has no rows, no batch and no quarrel.            *)
LEMMA NewStatementFields ==
  ASSUME NEW type \in Scrolls, NEW s, s = NewStatement(type)
  PROVE  /\ s \in Statement /\ (s.fetchSize # 0 => s.scroll = "forward")
         /\ s.batch = << >> /\ s.current = 0 /\ s.released = 0 /\ ~s.closed /\ ~s.closeOnCompletion
<1>1. PICK z : z = << >>
  OBVIOUS
<1>2. z \in Seq(Nat) /\ DefaultFetchSize \in Nat
  BY <1>1, SettingsAssumption
<1>3. PICK o : o = [scroll |-> type, fetchSize |-> DefaultFetchSize, maxRows |-> 0, queryTimeout |-> 0, batch |-> z,
                    closeOnCompletion |-> FALSE, closed |-> FALSE, current |-> 0, released |-> 0]
  OBVIOUS
<1>4. PICK n : n = IF type = "forward" THEN DefaultFetchSize ELSE 0
  OBVIOUS
<1>5. n \in Nat /\ (n # 0 => type = "forward")
  BY <1>2, <1>4
<1>6. s = [o EXCEPT !.scroll = type, !.fetchSize = n]
  BY <1>1, <1>3, <1>4 DEF NewStatement, WithResultSetType
<1>7. s = [scroll |-> type, fetchSize |-> n, maxRows |-> 0, queryTimeout |-> 0, batch |-> z,
           closeOnCompletion |-> FALSE, closed |-> FALSE, current |-> 0, released |-> 0]
  BY ONLY <1>3, <1>6
<1> QED
  BY ONLY <1>1, <1>2, <1>5, <1>7, type \in Scrolls DEF Statement

(* Every statement is new: what is left to keep is the protocol's belief.          *)
LEMMA FreshApart ==
  ASSUME NEW r \in Board, LimitIsKnown(r), r.did = Nobody,
         \A h \in Handles :
           /\ r.of[h].current = 0 /\ r.of[h].released = 0 /\ r.of[h].batch = << >>
           /\ r.of[h].fetchSize # 0 => r.of[h].scroll = "forward",
         \A i \in 1..Len(r.ran) : r.ran[i] < r.steps,
         \A i, j \in 1..Len(r.ran) : r.ran[i] = r.ran[j] => i = j
  PROVE  Apart(r) /\ RanAsSet(r)
<1>1. SetsHaveTheirStatement(r)
  BY DEF SetsHaveTheirStatement
<1>2. ScrollsAreStored(r)
  BY DEF ScrollsAreStored
<1>3. \A h \in Handles : \A i \in 1..Len(r.of[h].batch) : FALSE
  OBVIOUS
<1>4. TextsApart(r)
  BY ONLY <1>3, \A i \in 1..Len(r.ran) : r.ran[i] < r.steps,
          \A i, j \in 1..Len(r.ran) : r.ran[i] = r.ran[j] => i = j DEF TextsApart
<1>5. RanAsSet(r)
  BY DEF RanAsSet
<1> QED
  BY <1>1, <1>2, <1>4, <1>5 DEF Apart

(* The connection starts with new statements.                                      *)
LEMMA InitSettings == SettingsInit => SettingsInv
<1> SUFFICES ASSUME SettingsInit PROVE SettingsInv
  OBVIOUS
<1>1. PICK type \in Scrolls :
        board = [limit |-> 0, known |-> 0, stale |-> FALSE, of |-> [h \in Handles |-> NewStatement(type)], sets |-> << >>,
                 ran |-> << >>, steps |-> 0, did |-> Nobody]
  BY DEF SettingsInit
<1>2. PICK s : s = NewStatement(type)
  OBVIOUS
<1>3. /\ s \in Statement /\ (s.fetchSize # 0 => s.scroll = "forward")
      /\ s.batch = << >> /\ s.current = 0 /\ s.released = 0
  BY <1>2, NewStatementFields
<1>4. PICK f : f = [h \in Handles |-> s]
  OBVIOUS
<1>5. f \in [Handles -> Statement] /\ \A h \in Handles : f[h] = s
  BY <1>3, <1>4
<1>6. PICK y : y = << >>
  OBVIOUS
<1>7. y \in Seq(ResultSet) /\ y \in Seq(Nat) /\ Len(y) = 0
  BY <1>6
<1>8. PICK d : d = Nobody
  OBVIOUS
<1>9. board = [limit |-> 0, known |-> 0, stale |-> FALSE, of |-> f, sets |-> y, ran |-> y, steps |-> 0, did |-> d]
  BY <1>1, <1>2, <1>4, <1>6, <1>8
<1>10. d \in {Nobody} \cup Execution
  BY <1>8
<1>11. PICK r : r = board
  OBVIOUS
<1>12. r \in Board /\ r.of = f /\ r.ran = y /\ r.did = d /\ r.limit = r.known
  BY ONLY <1>5, <1>7, <1>9, <1>10, <1>11 DEF Board
<1>13. \A h \in Handles :
         /\ r.of[h].current = 0 /\ r.of[h].released = 0 /\ r.of[h].batch = << >>
         /\ r.of[h].fetchSize # 0 => r.of[h].scroll = "forward"
  BY <1>3, <1>5, <1>12
<1>14. \A i \in 1..Len(r.ran) : FALSE
  BY <1>7, <1>12
<1>15. LimitIsKnown(r)
  BY <1>12 DEF LimitIsKnown
<1> QED
  BY <1>8, <1>11, <1>12, <1>13, <1>14, <1>15, FreshApart DEF SettingsInv

(* The pool takes the connection back: what was open is closed, and no statement    *)
(* remains to be closed with it.                                                   *)
LEMMA ResetByPoolInv ==
  ASSUME Apart(board), ResetByPool
  PROVE  SettingsInv' /\ \A g \in Handles : ClosesRightly(g)
<1>1. PICK s : s = NewStatement("forward")
  OBVIOUS
<1>2. /\ s \in Statement /\ (s.fetchSize # 0 => s.scroll = "forward")
      /\ s.batch = << >> /\ s.current = 0 /\ s.released = 0 /\ ~s.closed /\ ~s.closeOnCompletion
  <2>1. "forward" \in Scrolls
    BY DEF Scrolls
  <2> QED
    BY <1>1, <2>1, NewStatementFields
<1>3. PICK f : f = [h \in Handles |-> s]
  OBVIOUS
<1>4. f \in [Handles -> Statement] /\ \A h \in Handles : f[h] = s
  BY <1>2, <1>3
<1>5. PICK b : b = Stepped(board)
  OBVIOUS
<1>6. /\ b \in Board /\ b.sets = board.sets /\ b.known = board.known
      /\ b.ran = board.ran /\ b.steps = board.steps + 1 /\ b.did = Nobody
  BY <1>5, SteppedFields DEF Apart
<1>7. PICK t : t = [i \in 1..Len(board.sets) |-> [board.sets[i] EXCEPT !.closed = TRUE]]
  OBVIOUS
<1>8. t \in Seq(ResultSet)
  <2>1. \A i \in 1..Len(board.sets) : board.sets[i] \in ResultSet
    BY DEF Apart, Board
  <2>2. \A i \in 1..Len(board.sets) : t[i] \in ResultSet
    BY <1>7, <2>1 DEF ResultSet
  <2>3. Len(board.sets) \in Nat
    BY DEF Apart, Board
  <2>4. t \in [1..Len(board.sets) -> ResultSet]
    BY <1>7, <2>2
  <2> QED
    BY <2>3, <2>4
<1>9. PICK v : v = (board.known # 0 \/ board.stale)
  OBVIOUS
<1>10. v \in BOOLEAN /\ (v \/ board.known = 0)
  BY <1>9 DEF Apart, Board
<1>11. PICK r : r = board'
  OBVIOUS
<1>12. r = [b EXCEPT !.limit = 0, !.stale = v, !.of = f, !.sets = t]
  BY <1>1, <1>3, <1>5, <1>6, <1>7, <1>9, <1>11 DEF ResetByPool, Board
<1>13. /\ r \in Board /\ r.limit = 0 /\ r.known = board.known /\ r.stale = v /\ r.of = f
       /\ r.ran = board.ran /\ r.steps = board.steps + 1 /\ r.did = Nobody
  BY ONLY <1>4, <1>6, <1>8, <1>10, <1>12 DEF Board
<1>14. LimitIsKnown(r)
  BY <1>10, <1>13 DEF LimitIsKnown
<1>15. \A h \in Handles :
         /\ r.of[h].current = 0 /\ r.of[h].released = 0 /\ r.of[h].batch = << >>
         /\ r.of[h].fetchSize # 0 => r.of[h].scroll = "forward"
  BY <1>2, <1>4, <1>13
<1>16. \A i \in 1..Len(r.ran) : r.ran[i] < r.steps
  <2>1. board.steps \in Nat /\ \A i \in 1..Len(board.ran) : board.ran[i] \in Nat
    BY DEF Apart, Board
  <2> QED
    BY <1>13, <2>1 DEF Apart, TextsApart
<1>17. \A i, j \in 1..Len(r.ran) : r.ran[i] = r.ran[j] => i = j
  BY <1>13 DEF Apart, TextsApart
<1>18. Apart(r) /\ RanAsSet(r)
  BY <1>13, <1>14, <1>15, <1>16, <1>17, FreshApart
<1>19. \A g \in Handles : ~r.of[g].closed /\ ~r.of[g].closeOnCompletion
  BY <1>2, <1>4, <1>13
<1> QED
  BY <1>11, <1>18, <1>19 DEF SettingsInv, ClosesRightly

(* Nothing ended, or nothing but executions: nothing to be closed.                 *)
LEMMA NothingToClose ==
  ASSUME NothingEnds \/ RunsOnly
  PROVE  \A g \in Handles : ClosesRightly(g)
<1>1. ASSUME NEW g \in Handles PROVE ClosesRightly(g)
  <2>1. CASE NothingEnds
    BY <2>1 DEF NothingEnds, ClosesRightly, LastSetEnds
  <2>2. CASE RunsOnly
    BY <2>2 DEF RunsOnly, ClosesRightly
  <2> QED
    BY <2>1, <2>2
<1> QED
  BY <1>1

(* Every call keeps the statements apart and closes what it has to close.          *)
LEMMA SettingsStep ==
  ASSUME SettingsInv, [SettingsNext]_board
  PROVE  SettingsInv' /\ \A g \in Handles : ClosesRightly(g)
<1> DEFINE Goal == SettingsInv' /\ \A g \in Handles : ClosesRightly(g)
<1>1. Apart(board)
  BY DEF SettingsInv
<1>2. CASE UNCHANGED board
  <2>1. SettingsInv'
    BY <1>2 DEF SettingsInv
  <2>2. NothingEnds
    BY <1>2 DEF NothingEnds
  <2> QED
    BY <2>1, <2>2, NothingToClose
<1>3. ASSUME NEW h \in Handles,
             \/ \E type \in Scrolls : SetResultSetType(h, type)
             \/ \E rows \in {MinInt, -1, 0, 2} : SetFetchSize(h, rows)
             \/ \E n \in {-1, 0, 1} : SetMaxRows(h, n)
             \/ \E n \in {-1, 3} : SetQueryTimeout(h, n)
             \/ CloseOnCompletion(h) \/ AddBatch(h) \/ ClearBatch(h)
      PROVE  Goal
  <2>1. SettingsInv' /\ NothingEnds
    BY <1>1, <1>3, SettersInv
  <2> QED
    BY <2>1, NothingToClose
<1>4. ASSUME NEW h \in Handles,
             \/ \E form \in {"plain", "columns"} : ExecuteUpdate(h, form, "count")
             \/ \E answer \in {"rows", "error"} : Executes(h, "plain", answer) \/ ExecuteQuery(h, answer)
      PROVE  Goal
  <2>1. SettingsInv' /\ RunsOnly
    BY <1>1, <1>4, ExecutesInv
  <2> QED
    BY <2>1, NothingToClose
<1>5. ASSUME NEW h \in Handles, ExecuteBatch(h) PROVE Goal
  <2>1. SettingsInv' /\ RunsOnly
    BY <1>1, <1>5, ExecuteBatchInv
  <2> QED
    BY <2>1, NothingToClose
<1>6. ASSUME NEW h \in Handles, GetResultSet(h) PROVE Goal
  <2>1. SettingsInv' /\ NothingEnds
    BY <1>1, <1>6, GetResultSetInv
  <2> QED
    BY <2>1, NothingToClose
<1>7. ASSUME NEW h \in Handles, CloseByCall(h) PROVE Goal
  BY <1>1, <1>7, CloseByCallInv
<1>8. ASSUME NEW k \in 1..Len(board.sets), CloseResultSet(k) PROVE Goal
  BY <1>1, <1>8, CloseResultSetInv
<1>9. ASSUME ResetByPool PROVE Goal
  BY <1>1, <1>9, ResetByPoolInv
<1> HIDE DEF Goal
<1>10. ASSUME LimitsNext PROVE Goal
  BY <1>3, <1>4, <1>9, <1>10 DEF LimitsNext
<1>11. ASSUME LifeNext PROVE Goal
  BY <1>3, <1>4, <1>5, <1>6, <1>7, <1>8, <1>11 DEF LifeNext
<1> QED
  BY <1>2, <1>10, <1>11 DEF SettingsNext, Goal

(* What is true of the board of a connection is what its users can count on.       *)
LEMMA ApartMeansApart == SettingsInv => StatementsKeepApart
<1> SUFFICES ASSUME SettingsInv PROVE StatementsKeepApart
  OBVIOUS
<1>1. board.did.by \in Handles => board.did # Nobody
  BY SettingsAssumption DEF Nobody
<1>2. LimitsAreItsOwn
  BY <1>1 DEF SettingsInv, RanAsSet, LimitsAreItsOwn
<1>3. StreamsGoForward
  BY <1>1 DEF SettingsInv, RanAsSet, StreamsGoForward
<1>4. BatchRunsOnce
  BY DEF SettingsInv, Apart, TextsApart, BatchRunsOnce
<1> QED
  BY <1>2, <1>3, <1>4 DEF StatementsKeepApart

(* For every number of statements, of calls and of rows per fetch: an execution      *)
(* runs under the limits of its own statement, rows are streamed only to a result     *)
(* that goes forward, and a text of a batch is run once at most.                      *)
THEOREM StatementsStayApart == SettingsSpec => []StatementsKeepApart
<1>1. SettingsInit => SettingsInv
  BY InitSettings
<1>2. SettingsInv /\ [SettingsNext]_board => SettingsInv'
  BY SettingsStep
<1>3. SettingsInv => StatementsKeepApart
  BY ApartMeansApart
<1> QED
  BY <1>1, <1>2, <1>3, PTL DEF SettingsSpec

(* A statement with closeOnCompletion is closed with the last result set that it      *)
(* handed out, and by nothing but that and its own close.                             *)
THEOREM CompletionClosesStatements == SettingsSpec => CompletionCloses
<1>1. SettingsInit => SettingsInv
  BY InitSettings
<1>2. SettingsInv /\ [SettingsNext]_board => SettingsInv'
  BY SettingsStep
<1>3. SettingsInv /\ [SettingsNext]_board =>
        [\A h \in Handles :
           LET s == board.of[h]
               ended == s.released # 0 /\ s.current = 0 /\ ~board.sets[s.released].closed /\ board'.sets[s.released].closed
           IN  /\ s.closeOnCompletion /\ ended /\ board'.did = Nobody /\ board'.of[h].closeOnCompletion => board'.of[h].closed
               /\ ~s.closed /\ board'.of[h].closed => ended \/ CloseByCall(h)]_board
  BY SettingsStep DEF ClosesRightly, LastSetEnds
<1> QED
  BY <1>1, <1>2, <1>3, PTL DEF SettingsSpec, CompletionCloses

-----------------------------------------------------------------------------
(* The prepared statements of one session and their cache.                         *)

(* The state as the counters see it: how many statements point to a result, and *)
(* which results the cache's list holds.                                        *)
UsersIn(f, r) == {s \in Stmts : f[s] = r}
UserCount(f, r) == Cardinality(UsersIn(f, r))
Held(q) == {q[i][2] : i \in DOMAIN q}
KeysOf(q) == {q[i][1] : i \in DOMAIN q}
EntriesApart(q) == \A i, j \in DOMAIN q : (q[i][1] = q[j][1] \/ q[i][2] = q[j][2]) => i = j

Owned(r) == UserCount(serverPrepareResult, r) > 0 \/ r \in Held(lu)

Exact ==
  \A r \in alive : (~closes \/ ~isBeingDeallocate[r]) =>
    shareCounter[r] = UserCount(serverPrepareResult, r) + (IF r \in Held(lu) THEN 1 ELSE 0)

\* who gives up a handle has marked its result, and the slot only holds such ones
ReleasedAreMarked ==
  /\ \A r \in alive : ~isBeingDeallocate[r] => handle[r] # "none"
  /\ statementIdToRelease # None => isBeingDeallocate[statementIdToRelease]

\* without close(), a result lives, and has its handle, exactly while it is owned
OwnersKeepAlive ==
  ~closes =>
    /\ statementIdToRelease = None
    /\ \A r \in Results : /\ r \in alive => ~isBeingDeallocate[r]
                          /\ handle[r] # "none" <=> r \in alive
                          /\ r \in alive <=> Owned(r)

CacheInv ==
  /\ CacheTypeOK
  /\ Len(lu) <= maxSize /\ EntriesApart(lu)
  /\ Exact
  /\ ReleasedAreMarked
  /\ OwnersKeepAlive

-----------------------------------------------------------------------------
(* How many statements point to a result: LruCache and statements are finite.   *)
LEMMA UserCountNat ==
  ASSUME NEW f, NEW r
  PROVE  /\ IsFiniteSet(UsersIn(f, r)) /\ UserCount(f, r) \in Nat
         /\ UserCount(f, r) > 0 <=> UsersIn(f, r) # {}
<1>1. IsFiniteSet(UsersIn(f, r))
  BY SetsAssumption, FS_Subset DEF UsersIn
<1> QED
  BY <1>1, FS_CardinalityType, FS_EmptySet DEF UserCount

(* A statement object without a result takes one.                               *)
LEMMA TakenCount ==
  ASSUME NEW f \in [Stmts -> Results \cup {None}], NEW s \in Stmts, f[s] = None,
         NEW r \in Results, NEW g, g[s] = r, \A x \in Stmts : x # s => g[x] = f[x]
  PROVE  /\ UserCount(g, r) = UserCount(f, r) + 1
         /\ \A q \in Results : q # r => UserCount(g, q) = UserCount(f, q)
<1>1. r # None
  BY SetsAssumption
<1>2. UsersIn(g, r) = UsersIn(f, r) \cup {s} /\ s \notin UsersIn(f, r)
  BY <1>1 DEF UsersIn
<1>3. UserCount(g, r) = UserCount(f, r) + 1
  BY <1>2, UserCountNat, FS_AddElement DEF UserCount
<1>4. \A q \in Results : q # r => UsersIn(g, q) = UsersIn(f, q)
  BY SetsAssumption DEF UsersIn
<1> QED
  BY <1>3, <1>4 DEF UserCount

(* A statement object that is closed or destroyed drops its result.             *)
LEMMA DroppedCount ==
  ASSUME NEW f \in [Stmts -> Results \cup {None}], NEW s \in Stmts,
         NEW r \in Results, f[s] = r, NEW g, g[s] = None, \A x \in Stmts : x # s => g[x] = f[x]
  PROVE  /\ UserCount(g, r) = UserCount(f, r) - 1
         /\ \A q \in Results : q # r => UserCount(g, q) = UserCount(f, q)
<1>1. UsersIn(g, r) = UsersIn(f, r) \ {s} /\ s \in UsersIn(f, r)
  BY SetsAssumption DEF UsersIn
<1>2. UserCount(g, r) = UserCount(f, r) - 1
  BY <1>1, UserCountNat, FS_RemoveElement DEF UserCount
<1>3. \A q \in Results : q # r => UsersIn(g, q) = UsersIn(f, q)
  BY SetsAssumption DEF UsersIn
<1> QED
  BY <1>2, <1>3 DEF UserCount

-----------------------------------------------------------------------------
(* Where the entries of two lists are when one follows the other.               *)
LEMMA EntriesJoined ==
  ASSUME NEW T, NEW c \in Seq(T), NEW b \in Seq(T)
  PROVE  /\ c \o b \in Seq(T) /\ Len(c \o b) = Len(c) + Len(b)
         /\ DOMAIN (c \o b) = 1..(Len(c) + Len(b))
         /\ \A j \in 1..Len(c) : (c \o b)[j] = c[j]
         /\ \A j \in (Len(c) + 1)..(Len(c) + Len(b)) : (c \o b)[j] = b[j - Len(c)]
OBVIOUS

(* LruCache::get only reorders the list.                                        *)
LEMMA SplicedList ==
  ASSUME NEW T, NEW q \in Seq(T), EntriesApart(q), NEW i \in DOMAIN q
  PROVE  LET t == <<q[i]>> \o SubSeq(q, 1, i - 1) \o SubSeq(q, i + 1, Len(q))
         IN  t \in Seq(T) /\ Len(t) = Len(q) /\ EntriesApart(t) /\ Held(t) = Held(q)
<1> DEFINE a == SubSeq(q, 1, i - 1)
           b == SubSeq(q, i + 1, Len(q))
           t == <<q[i]>> \o a \o b
<1>1. Len(q) \in Nat /\ DOMAIN q = 1..Len(q) /\ i \in 1..Len(q) /\ q[i] \in T
  OBVIOUS
<1>2. a \in Seq(T) /\ Len(a) = i - 1 /\ \A j \in 1..(i - 1) : a[j] = q[j]
  BY <1>1
<1>3. b \in Seq(T) /\ Len(b) = Len(q) - i /\ \A j \in 1..(Len(q) - i) : b[j] = q[i + j]
  BY <1>1, SMTT(30)
<1> HIDE DEF a, b
<1> DEFINE c == <<q[i]>> \o a
<1>c. c \in Seq(T) /\ Len(c) = i /\ c[1] = q[i] /\ \A j \in 2..i : c[j] = a[j - 1]
  BY <1>1, <1>2
<1> HIDE DEF c
<1>t. t = c \o b
  BY DEF c
<1> HIDE DEF t
<1>4. /\ t \in Seq(T) /\ Len(t) = Len(q) /\ DOMAIN t = 1..Len(q)
      /\ \A j \in 1..i : t[j] = c[j]
      /\ \A j \in (i + 1)..Len(q) : t[j] = b[j - i]
  <2>1. Len(c) + Len(b) = Len(q) /\ c \in Seq(T) /\ b \in Seq(T)
    BY <1>1, <1>3, <1>c
  <2>2. /\ t \in Seq(T) /\ Len(t) = Len(c) + Len(b) /\ DOMAIN t = 1..(Len(c) + Len(b))
        /\ \A j \in 1..Len(c) : t[j] = c[j]
        /\ \A j \in (Len(c) + 1)..(Len(c) + Len(b)) : t[j] = b[j - Len(c)]
    BY <1>t, <2>1, EntriesJoined, ZenonT(30)
  <2> QED
    BY <1>c, <2>1, <2>2
<1>5. t[1] = q[i] /\ (\A j \in 2..i : t[j] = q[j - 1]) /\ \A j \in (i + 1)..Len(q) : t[j] = q[j]
  <2>1. t[1] = q[i]
    BY <1>1, <1>c, <1>4
  <2>2. ASSUME NEW j \in 2..i PROVE t[j] = q[j - 1]
    <3>1. j \in 1..i /\ j - 1 \in 1..(i - 1)
      BY <1>1
    <3> QED
      BY <1>2, <1>c, <1>4, <3>1
  <2>3. ASSUME NEW j \in (i + 1)..Len(q) PROVE t[j] = q[j]
    <3>1. j - i \in 1..(Len(q) - i) /\ i + (j - i) = j
      BY <1>1
    <3> QED
      BY <1>3, <1>4, <3>1
  <2> QED
    BY <2>1, <2>2, <2>3
<1> DEFINE from == [j \in 1..Len(q) |-> IF j = 1 THEN i ELSE IF j <= i THEN j - 1 ELSE j]
<1>6. \A j \in 1..Len(q) : from[j] \in 1..Len(q) /\ t[j] = q[from[j]]
  BY <1>1, <1>5
<1>7. \A j, k \in 1..Len(q) : from[j] = from[k] => j = k
  BY <1>1
<1>8. \A j \in 1..Len(q) : \E k \in 1..Len(q) : from[k] = j
  <2> TAKE j \in 1..Len(q)
  <2>1. CASE j = i
    BY <1>1, <2>1
  <2>2. CASE j < i
    BY <1>1, <2>2
  <2>3. CASE j > i
    BY <1>1, <2>3
  <2> QED
    BY <1>1, <2>1, <2>2, <2>3
<1> HIDE DEF from
<1>9. EntriesApart(t)
  BY <1>1, <1>4, <1>6, <1>7 DEF EntriesApart
<1>10. Held(t) = Held(q)
  <2>1. ASSUME NEW x \in Held(t) PROVE x \in Held(q)
    BY <1>1, <1>4, <1>6 DEF Held
  <2>2. ASSUME NEW x \in Held(q) PROVE x \in Held(t)
    <3>1. PICK j \in 1..Len(q) : x = q[j][2]
      BY <1>1 DEF Held
    <3>2. PICK k \in 1..Len(q) : from[k] = j
      BY <1>8
    <3> QED
      BY <1>4, <1>6, <3>1, <3>2 DEF Held
  <2> QED
    BY <2>1, <2>2
<1> QED
  BY <1>4, <1>9, <1>10 DEF t, a, b

(* The cache drops the entry at the end of its list.                            *)
LEMMA ShortenedList ==
  ASSUME NEW T, NEW q \in Seq(T), EntriesApart(q), Len(q) > 0
  PROVE  LET t == SubSeq(q, 1, Len(q) - 1)
         IN  /\ t \in Seq(T) /\ Len(t) = Len(q) - 1 /\ EntriesApart(t)
             /\ Held(t) = Held(q) \ {q[Len(q)][2]} /\ q[Len(q)][2] \in Held(q)
             /\ KeysOf(t) \subseteq KeysOf(q)
<1> DEFINE t == SubSeq(q, 1, Len(q) - 1)
<1>1. Len(q) \in Nat /\ DOMAIN q = 1..Len(q)
  OBVIOUS
<1>2. /\ t \in Seq(T) /\ Len(t) = Len(q) - 1 /\ DOMAIN t = 1..(Len(q) - 1)
      /\ \A j \in 1..(Len(q) - 1) : t[j] = q[j]
  BY <1>1
<1> HIDE DEF t
<1>3. EntriesApart(t) /\ KeysOf(t) \subseteq KeysOf(q)
  BY <1>1, <1>2 DEF EntriesApart, KeysOf
<1>4. Held(t) = Held(q) \ {q[Len(q)][2]} /\ q[Len(q)][2] \in Held(q)
  <2>1. ASSUME NEW x \in Held(t) PROVE x \in Held(q) /\ x # q[Len(q)][2]
    BY <1>1, <1>2 DEF Held, EntriesApart
  <2>2. ASSUME NEW x \in Held(q), x # q[Len(q)][2] PROVE x \in Held(t)
    <3>1. PICK j \in 1..Len(q) : x = q[j][2]
      BY <1>1 DEF Held
    <3> QED
      BY <1>1, <1>2, <2>2, <3>1 DEF Held
  <2>3. q[Len(q)][2] \in Held(q)
    BY <1>1 DEF Held
  <2> QED
    BY <2>1, <2>2, <2>3
<1> QED
  BY <1>2, <1>3, <1>4 DEF t

(* A new key and a new result at the front of the list.                         *)
LEMMA GrownList ==
  ASSUME NEW T, NEW q \in Seq(T), EntriesApart(q),
         NEW e \in T, e[1] \notin KeysOf(q), e[2] \notin Held(q)
  PROVE  LET t == <<e>> \o q
         IN  /\ t \in Seq(T) /\ Len(t) = Len(q) + 1 /\ EntriesApart(t)
             /\ Held(t) = Held(q) \cup {e[2]}
<1> DEFINE t == <<e>> \o q
<1>1. Len(q) \in Nat /\ DOMAIN q = 1..Len(q) /\ e \in T
  OBVIOUS
<1>2. /\ t \in Seq(T) /\ Len(t) = Len(q) + 1 /\ DOMAIN t = 1..(Len(q) + 1)
      /\ t[1] = e /\ \A j \in 2..(Len(q) + 1) : j - 1 \in 1..Len(q) /\ t[j] = q[j - 1]
  BY <1>1
<1>3. \A j \in 1..Len(q) : j + 1 \in 2..(Len(q) + 1) /\ t[j + 1] = q[j]
  BY <1>1, <1>2
<1>4. \A j \in 1..Len(q) : q[j][1] # e[1] /\ q[j][2] # e[2]
  BY <1>1 DEF KeysOf, Held
<1> HIDE DEF t
<1>5. EntriesApart(t)
  <2> SUFFICES ASSUME NEW i \in 1..(Len(q) + 1), NEW j \in 1..(Len(q) + 1),
                      t[i][1] = t[j][1] \/ t[i][2] = t[j][2]
               PROVE  i = j
    BY <1>2 DEF EntriesApart
  <2>1. CASE i = 1 \/ j = 1
    BY <1>1, <1>2, <1>4, <2>1
  <2>2. CASE i # 1 /\ j # 1
    <3>1. i \in 2..(Len(q) + 1) /\ j \in 2..(Len(q) + 1)
      BY <1>1, <2>2
    <3>2. i - 1 \in DOMAIN q /\ j - 1 \in DOMAIN q /\ t[i] = q[i - 1] /\ t[j] = q[j - 1]
      BY <1>1, <1>2, <3>1
    <3>3. i - 1 = j - 1
      BY <3>2 DEF EntriesApart
    <3> QED
      BY <1>1, <3>1, <3>3
  <2> QED
    BY <2>1, <2>2
<1>6. Held(t) = Held(q) \cup {e[2]}
  <2>1. ASSUME NEW x \in Held(t) PROVE x \in Held(q) \cup {e[2]}
    <3>1. PICK j \in 1..(Len(q) + 1) : x = t[j][2]
      BY <1>2 DEF Held
    <3>2. CASE j = 1
      BY <1>2, <3>1, <3>2
    <3>3. CASE j # 1
      <4>1. j \in 2..(Len(q) + 1)
        BY <1>1, <3>3
      <4> QED
        BY <1>1, <1>2, <3>1, <4>1 DEF Held
    <3> QED
      BY <3>2, <3>3
  <2>2. ASSUME NEW x \in Held(q) PROVE x \in Held(t)
    BY <1>1, <1>2, <1>3 DEF Held
  <2>3. e[2] \in Held(t)
    BY <1>1, <1>2 DEF Held
  <2> QED
    BY <2>1, <2>2, <2>3
<1> QED
  BY <1>2, <1>5, <1>6 DEF t

-----------------------------------------------------------------------------
(* A prepare that hits the cache: one more statement shares a cached result.    *)
LEMMA PrepareHitStep ==
  ASSUME CacheInv, NEW s \in Stmts, NEW k \in Keys, PrepareHit(s, k)
  PROVE  CacheInv'
<1> USE DEF CacheInv, CacheTypeOK
<1>1. PICK i \in DOMAIN lu :
        /\ serverPrepareResult' = [serverPrepareResult EXCEPT ![s] = lu[i][2]]
        /\ shareCounter' = [shareCounter EXCEPT ![lu[i][2]] = CountAfterHit(lu[i][2])]
        /\ lu' = Touched(i)
  BY DEF PrepareHit
<1>2. lu[i] \in Keys \X Results
  OBVIOUS
<1>3. PICK r \in Results : r = lu[i][2] /\ r \in Held(lu)
  BY <1>2 DEF Held
<1>4. lu' \in Seq(Keys \X Results) /\ Len(lu') = Len(lu) /\ EntriesApart(lu') /\ Held(lu') = Held(lu)
  BY <1>1, SplicedList DEF Touched
<1>5. /\ serverPrepareResult' \in [Stmts -> Results \cup {None}]
      /\ UserCount(serverPrepareResult', r) = UserCount(serverPrepareResult, r) + 1
      /\ \A q \in Results : q # r => UserCount(serverPrepareResult', q) = UserCount(serverPrepareResult, q)
  <2>1. serverPrepareResult' = [serverPrepareResult EXCEPT ![s] = r]
    BY <1>1, <1>3
  <2>2. serverPrepareResult \in [Stmts -> Results \cup {None}] /\ serverPrepareResult[s] = None
    BY DEF PrepareHit
  <2>3. /\ serverPrepareResult' \in [Stmts -> Results \cup {None}] /\ serverPrepareResult'[s] = r
        /\ \A x \in Stmts : x # s => serverPrepareResult'[x] = serverPrepareResult[x]
    BY ONLY <2>1, <2>2, r \in Results
  <2> QED
    BY ONLY <2>2, <2>3, TakenCount, s \in Stmts, r \in Results
<1>6. \A q \in Results : UserCount(serverPrepareResult, q) \in Nat
  BY UserCountNat
<1>7. /\ shareCounter' \in [Results -> Int]
      /\ shareCounter'[r] = IF isBeingDeallocate[r] THEN shareCounter[r] ELSE shareCounter[r] + 1
      /\ \A q \in Results : q # r => shareCounter'[q] = shareCounter[q]
  BY <1>1, <1>3 DEF CountAfterHit
<1>8. /\ handle' \in [Results -> {"none", "open", "detached"}] /\ statementIdToRelease' = None
      /\ \A q \in Results : handle'[q] = IF q = statementIdToRelease THEN "none" ELSE handle[q]
      /\ UNCHANGED <<isBeingDeallocate, alive, connected, closes>>
  BY DEF PrepareHit, AfterPrologue
<1>9. CacheTypeOK'
  BY <1>4, <1>5, <1>7, <1>8
<1>10. Exact'
  <2>1. ASSUME NEW q \in alive, ~closes \/ ~isBeingDeallocate[q]
        PROVE  shareCounter'[q] = UserCount(serverPrepareResult', q) + (IF q \in Held(lu) THEN 1 ELSE 0)
    <3>1. q \in Results /\ ~isBeingDeallocate[q]
      BY <2>1 DEF OwnersKeepAlive
    <3>2. shareCounter[q] = UserCount(serverPrepareResult, q) + (IF q \in Held(lu) THEN 1 ELSE 0)
      BY <2>1 DEF Exact
    <3>3. UserCount(serverPrepareResult, q) \in Nat
      BY ONLY <1>6, <3>1
    <3>4. CASE q = r
      BY ONLY <1>3, <1>5, <1>7, <3>1, <3>2, <3>3, <3>4
    <3>5. CASE q # r
      BY ONLY <1>5, <1>7, <3>1, <3>2, <3>5
    <3> QED
      BY ONLY <3>4, <3>5
  <2>2. alive' = alive /\ closes' = closes /\ isBeingDeallocate' = isBeingDeallocate /\ Held(lu)' = Held(lu)
    BY ONLY <1>4, <1>8 DEF Held
  <2> QED
    BY ONLY <2>1, <2>2 DEF Exact
<1>11. ReleasedAreMarked'
  BY <1>8, SetsAssumption DEF ReleasedAreMarked
<1>12. OwnersKeepAlive'
  BY <1>3, <1>4, <1>5, <1>6, <1>8, SetsAssumption DEF OwnersKeepAlive, Owned
<1> QED
  BY <1>4, <1>9, <1>10, <1>11, <1>12

(* A command, which closes what waits in the slot.                              *)
LEMMA CommandStep == ASSUME CacheInv, Command PROVE CacheInv'
<1> USE DEF CacheInv, CacheTypeOK
<1>1. /\ handle' \in [Results -> {"none", "open", "detached"}] /\ statementIdToRelease' = None
      /\ \A q \in Results : handle'[q] = IF q = statementIdToRelease THEN "none" ELSE handle[q]
      /\ UNCHANGED <<lu, shareCounter, isBeingDeallocate, alive, serverPrepareResult, connected, closes>>
  BY DEF Command, AfterPrologue
<1>2. Exact'
  BY <1>1 DEF Exact
<1>3. ReleasedAreMarked'
  BY <1>1, SetsAssumption DEF ReleasedAreMarked
<1>4. OwnersKeepAlive'
  BY <1>1, SetsAssumption DEF OwnersKeepAlive, Owned
<1> QED
  BY <1>1, <1>2, <1>3, <1>4

(* close() of a statement decrements, and marks a result it gives up.           *)
LEMMA CloseStatementStep ==
  ASSUME CacheInv, NEW s \in Stmts, CloseStatement(s)
  PROVE  CacheInv'
<1> USE DEF CacheInv, CacheTypeOK
<1>r. PICK r \in Results : r = serverPrepareResult[s]
  BY DEF CloseStatement
<1> DEFINE release == shareCounter[r] - 1 <= 1 /\ ~isBeingDeallocate[r]
<1>1. /\ serverPrepareResult' \in [Stmts -> Results \cup {None}]
      /\ UserCount(serverPrepareResult', r) = UserCount(serverPrepareResult, r) - 1
      /\ \A q \in Results : q # r => UserCount(serverPrepareResult', q) = UserCount(serverPrepareResult, q)
  <2>1. serverPrepareResult' = [serverPrepareResult EXCEPT ![s] = None]
    BY DEF CloseStatement
  <2>2. serverPrepareResult \in [Stmts -> Results \cup {None}]
    OBVIOUS
  <2>3. /\ serverPrepareResult' \in [Stmts -> Results \cup {None}] /\ serverPrepareResult'[s] = None
        /\ \A x \in Stmts : x # s => serverPrepareResult'[x] = serverPrepareResult[x]
    BY ONLY <2>1, <2>2, s \in Stmts
  <2> QED
    BY ONLY <1>r, <2>2, <2>3, DroppedCount, s \in Stmts, r \in Results
<1>2. \A q \in Results : UserCount(serverPrepareResult, q) \in Nat
  BY UserCountNat
<1>3. /\ shareCounter' = [shareCounter EXCEPT ![r] = shareCounter[r] - 1]
      /\ isBeingDeallocate' = [isBeingDeallocate EXCEPT ![r] = isBeingDeallocate[r] \/ release]
      /\ statementIdToRelease' = IF release /\ connected THEN r ELSE statementIdToRelease
      /\ handle' = IF release /\ ~connected THEN [handle EXCEPT ![r] = "none"] ELSE handle
      /\ UNCHANGED <<lu, alive, connected, closes>> /\ closes
  BY <1>r DEF CloseStatement, CanBeDeallocate
<1>4. CacheTypeOK'
  BY <1>1, <1>3
<1>5. Exact'
  BY <1>1, <1>2, <1>3 DEF Exact
<1>6. ReleasedAreMarked'
  BY <1>1, <1>3, SetsAssumption DEF ReleasedAreMarked
<1>7. OwnersKeepAlive'
  BY <1>3 DEF OwnersKeepAlive
<1> QED
  BY <1>3, <1>4, <1>5, <1>6, <1>7

\* an owner that lets go of S deletes r
Gone(S, r) == r \in S /\ shareCounter[r] <= 1 /\ ~isBeingDeallocate[r]

(* What letting go of some results leaves of the four records.                  *)
LEMMA LetGoEffect ==
  ASSUME CacheTypeOK, NEW S, S \subseteq Results,
         NEW handles \in [Results -> {"none", "open", "detached"}], LetGo(S, handles)
  PROVE  /\ alive' \subseteq Results
         /\ shareCounter' \in [Results -> Int]
         /\ isBeingDeallocate' \in [Results -> BOOLEAN]
         /\ handle' \in [Results -> {"none", "open", "detached"}]
         /\ \A r \in Results :
              /\ r \in alive' <=> r \in alive /\ ~Gone(S, r)
              /\ handle'[r] = IF Gone(S, r) THEN "none" ELSE handles[r]
              /\ isBeingDeallocate'[r] <=> Gone(S, r) \/ isBeingDeallocate[r]
              /\ shareCounter'[r] = IF r \in S /\ ~Gone(S, r) THEN shareCounter[r] - 1 ELSE shareCounter[r]
<1> DEFINE gone == {r \in S : CanBeDeallocate(r, shareCounter[r])}
<1>1. \A r \in Results : r \in gone <=> Gone(S, r)
  BY DEF CanBeDeallocate, Gone
<1>2. /\ alive' = alive \ gone
      /\ handle' = [r \in Results |-> IF r \in gone THEN "none" ELSE handles[r]]
      /\ isBeingDeallocate' = [r \in Results |-> r \in gone \/ isBeingDeallocate[r]]
      /\ shareCounter' = [r \in Results |->
           IF r \in S \ gone THEN shareCounter[r] - 1 ELSE shareCounter[r]]
  BY DEF LetGo
<1> HIDE DEF gone
<1>3. /\ alive' \subseteq Results
      /\ shareCounter' \in [Results -> Int]
      /\ isBeingDeallocate' \in [Results -> BOOLEAN]
      /\ handle' \in [Results -> {"none", "open", "detached"}]
  BY <1>2 DEF CacheTypeOK
<1>4. ASSUME NEW r \in Results
      PROVE  /\ r \in alive' <=> r \in alive /\ r \notin gone
             /\ handle'[r] = IF r \in gone THEN "none" ELSE handles[r]
             /\ isBeingDeallocate'[r] <=> r \in gone \/ isBeingDeallocate[r]
             /\ shareCounter'[r] = IF r \in S /\ r \notin gone THEN shareCounter[r] - 1 ELSE shareCounter[r]
  BY <1>2
<1> QED
  BY <1>1, <1>3, <1>4

(* delete of a statement object: its result goes with its last owner.           *)
LEMMA DestroyStatementStep ==
  ASSUME CacheInv, NEW s \in Stmts, DestroyStatement(s)
  PROVE  CacheInv'
<1> USE DEF CacheInv, CacheTypeOK
<1>r. PICK r \in Results : r = serverPrepareResult[s]
  BY DEF DestroyStatement
<1>1. /\ serverPrepareResult' \in [Stmts -> Results \cup {None}]
      /\ UserCount(serverPrepareResult', r) = UserCount(serverPrepareResult, r) - 1
      /\ \A q \in Results : q # r => UserCount(serverPrepareResult', q) = UserCount(serverPrepareResult, q)
  <2>1. serverPrepareResult' = [serverPrepareResult EXCEPT ![s] = None]
    BY DEF DestroyStatement
  <2>2. serverPrepareResult \in [Stmts -> Results \cup {None}]
    OBVIOUS
  <2>3. /\ serverPrepareResult' \in [Stmts -> Results \cup {None}] /\ serverPrepareResult'[s] = None
        /\ \A x \in Stmts : x # s => serverPrepareResult'[x] = serverPrepareResult[x]
    BY ONLY <2>1, <2>2, s \in Stmts
  <2> QED
    BY ONLY <1>r, <2>2, <2>3, DroppedCount, s \in Stmts, r \in Results
<1>2. \A q \in Results : /\ UserCount(serverPrepareResult, q) \in Nat
                          /\ UserCount(serverPrepareResult', q) \in Nat
  BY UserCountNat
<1> DEFINE S == {r}
<1>3. /\ alive' \subseteq Results
      /\ shareCounter' \in [Results -> Int]
      /\ isBeingDeallocate' \in [Results -> BOOLEAN]
      /\ handle' \in [Results -> {"none", "open", "detached"}]
      /\ \A q \in Results :
           /\ q \in alive' <=> q \in alive /\ ~Gone(S, q)
           /\ handle'[q] = IF Gone(S, q) THEN "none" ELSE handle[q]
           /\ isBeingDeallocate'[q] <=> Gone(S, q) \/ isBeingDeallocate[q]
           /\ shareCounter'[q] = IF q \in S /\ ~Gone(S, q) THEN shareCounter[q] - 1 ELSE shareCounter[q]
  <2>1. LetGo(S, handle) /\ S \subseteq Results
    BY <1>r DEF DestroyStatement
  <2>2. CacheTypeOK /\ handle \in [Results -> {"none", "open", "detached"}]
    OBVIOUS
  <2> HIDE DEF S
  <2> QED
    BY ONLY <2>1, <2>2, LetGoEffect
<1>4. UNCHANGED <<lu, statementIdToRelease, connected, closes>>
  BY DEF DestroyStatement
<1>5. CacheTypeOK'
  BY <1>1, <1>3, <1>4
<1>6. Exact'
  <2> SUFFICES ASSUME NEW q \in alive', ~closes \/ ~isBeingDeallocate'[q]
               PROVE  shareCounter'[q] = UserCount(serverPrepareResult', q)
                        + (IF q \in Held(lu) THEN 1 ELSE 0)
    BY <1>4 DEF Exact
  <2>1. q \in Results /\ q \in alive /\ ~Gone(S, q) /\ (~closes \/ ~isBeingDeallocate[q])
    BY <1>3
  <2>2. shareCounter[q] = UserCount(serverPrepareResult, q) + (IF q \in Held(lu) THEN 1 ELSE 0)
    BY <2>1 DEF Exact
  <2>3. CASE q = r
    BY <1>1, <1>2, <1>3, <2>1, <2>2, <2>3
  <2>4. CASE q # r
    BY <1>1, <1>3, <2>1, <2>2, <2>4
  <2> QED
    BY <2>3, <2>4
<1>7. ReleasedAreMarked'
  BY <1>3, <1>4 DEF ReleasedAreMarked
<1>8. OwnersKeepAlive'
  <2> SUFFICES ASSUME ~closes PROVE OwnersKeepAlive'
    BY <1>4 DEF OwnersKeepAlive
  <2>1. r \in alive /\ ~isBeingDeallocate[r]
        /\ shareCounter[r] = UserCount(serverPrepareResult, r) + (IF r \in Held(lu) THEN 1 ELSE 0)
    <3>1. UserCount(serverPrepareResult, r) > 0
      BY <1>1, <1>2
    <3> QED
      BY <3>1 DEF OwnersKeepAlive, Owned, Exact
  <2>2. r \in alive' <=> Owned(r)'
    BY <1>1, <1>2, <1>3, <1>4, <2>1 DEF Owned, Gone
  <2>3. ASSUME NEW q \in Results, q # r PROVE q \in alive' <=> Owned(q)'
    BY <1>1, <1>2, <1>3, <1>4, <2>3 DEF OwnersKeepAlive, Owned, Gone
  <2> QED
    BY <1>3, <1>4, <2>2, <2>3 DEF OwnersKeepAlive
<1> QED
  BY <1>4, <1>5, <1>6, <1>7, <1>8

(* A prepare that misses: a new result for the statement and perhaps the cache, *)
(* which then lets go of its eldest entry.                                      *)
LEMMA PrepareMissStep ==
  ASSUME CacheInv, NEW s \in Stmts, NEW k \in Keys, PrepareMiss(s, k)
  PROVE  CacheInv'
<1> DEFINE caches == maxSize > 0 /\ k \notin LongKeys
           victims == IF caches THEN Evicted ELSE {}
           gone == {v \in victims : CanBeDeallocate(v, shareCounter[v])}
<1>1. PICK r \in Allocated :
        /\ lu' = IF caches THEN <<CacheEntry(k, r)>> \o KeptEntries ELSE lu
        /\ alive' = (alive \ gone) \cup {r}
        /\ handle' = [q \in Results |->
             IF q = r THEN "open" ELSE IF q \in gone THEN "none" ELSE AfterPrologue[q]]
        /\ isBeingDeallocate' = [q \in Results |->
             q # r /\ (q \in gone \/ isBeingDeallocate[q])]
        /\ shareCounter' = [q \in Results |->
             IF q = r THEN (IF caches THEN 2 ELSE 1)
             ELSE IF q \in victims \ gone THEN shareCounter[q] - 1 ELSE shareCounter[q]]
        /\ serverPrepareResult' = [serverPrepareResult EXCEPT ![s] = r]
  BY DEF PrepareMiss
<1>2. /\ r \in Results /\ r \notin alive /\ r \notin Held(lu) /\ handle[r] = "none"
      /\ UserCount(serverPrepareResult, r) = 0 /\ statementIdToRelease # r
  <2>1. r \in Unreferenced
    BY DEF Allocated
  <2>2. UsersIn(serverPrepareResult, r) = {}
    BY <2>1 DEF Unreferenced, Users, UsersIn
  <2> QED
    BY <2>1, <2>2, UserCountNat DEF Unreferenced, Cached, Held
<1>3. /\ serverPrepareResult' \in [Stmts -> Results \cup {None}]
      /\ UserCount(serverPrepareResult', r) = 1
      /\ \A q \in Results : q # r => UserCount(serverPrepareResult', q) = UserCount(serverPrepareResult, q)
  <2>1. serverPrepareResult' = [serverPrepareResult EXCEPT ![s] = r]
    BY <1>1
  <2>2. serverPrepareResult \in [Stmts -> Results \cup {None}] /\ serverPrepareResult[s] = None
    BY DEF PrepareMiss, CacheInv, CacheTypeOK
  <2>3. /\ serverPrepareResult' \in [Stmts -> Results \cup {None}] /\ serverPrepareResult'[s] = r
        /\ \A x \in Stmts : x # s => serverPrepareResult'[x] = serverPrepareResult[x]
    BY ONLY <1>2, <2>1, <2>2
  <2> QED
    BY ONLY <1>2, <2>2, <2>3, TakenCount, s \in Stmts
<1>4. \A q \in Results : UserCount(serverPrepareResult, q) \in Nat
  BY UserCountNat
<1>5. /\ lu' \in Seq(Keys \X Results) /\ Len(lu') <= maxSize /\ EntriesApart(lu')
      /\ victims \subseteq Held(lu)
      /\ Held(lu') = (Held(lu) \ victims) \cup (IF caches THEN {r} ELSE {})
  <2>1. /\ lu \in Seq(Keys \X Results) /\ EntriesApart(lu) /\ Len(lu) <= maxSize /\ Len(lu) \in Nat
        /\ maxSize \in Nat /\ k \notin KeysOf(lu)
    BY CacheAssumption DEF CacheInv, CacheTypeOK, PrepareMiss, CachedKeys, KeysOf
  <2>2. CASE ~caches
    BY <1>1, <2>1, <2>2
  <2>3. CASE caches
    <3> DEFINE e == <<k, r>>
    <3>1. e \in Keys \X Results /\ e[1] = k /\ e[2] = r
      BY <1>2
    <3>2. lu' = <<e>> \o KeptEntries
      BY <1>1, <2>3 DEF CacheEntry
    <3> HIDE DEF e
    <3>3. /\ KeptEntries \in Seq(Keys \X Results) /\ EntriesApart(KeptEntries) /\ Len(KeptEntries) <= maxSize - 1
          /\ Held(KeptEntries) = Held(lu) \ victims /\ victims \subseteq Held(lu)
          /\ KeysOf(KeptEntries) \subseteq KeysOf(lu)
      <4>1. CASE Full
        <5>1. /\ KeptEntries = SubSeq(lu, 1, Len(lu) - 1) /\ victims = {lu[Len(lu)][2]}
              /\ Len(lu) > 0 /\ Len(lu) = maxSize
          BY <2>1, <2>3, <4>1 DEF KeptEntries, Evicted, Full
        <5>2. PICK t : t = SubSeq(lu, 1, Len(lu) - 1)
          OBVIOUS
        <5>3. /\ t \in Seq(Keys \X Results) /\ Len(t) = Len(lu) - 1 /\ EntriesApart(t)
              /\ Held(t) = Held(lu) \ {lu[Len(lu)][2]} /\ lu[Len(lu)][2] \in Held(lu)
              /\ KeysOf(t) \subseteq KeysOf(lu)
          BY ONLY <2>1, <5>1, <5>2, ShortenedList
        <5>4. KeptEntries = t
          BY <5>1, <5>2
        <5>5. Len(t) <= maxSize - 1
          BY ONLY <2>1, <5>1, <5>3
        <5> QED
          BY ONLY <5>1, <5>3, <5>4, <5>5
      <4>2. CASE ~Full
        BY <2>1, <2>3, <4>2 DEF KeptEntries, Evicted, Full
      <4> QED
        BY <4>1, <4>2
    <3>4. e[1] \notin KeysOf(KeptEntries) /\ e[2] \notin Held(KeptEntries)
      BY <1>2, <2>1, <3>1, <3>3
    <3>5. /\ lu' \in Seq(Keys \X Results) /\ Len(lu') = Len(KeptEntries) + 1 /\ EntriesApart(lu')
          /\ Held(lu') = Held(KeptEntries) \cup {e[2]}
      BY ONLY <3>1, <3>2, <3>3, <3>4, GrownList
    <3>6. Len(KeptEntries) \in Nat
      BY ONLY <3>3
    <3>7. Len(lu') <= maxSize
      BY ONLY <2>1, <3>3, <3>5, <3>6
    <3> QED
      BY <2>3, <3>1, <3>3, <3>5, <3>7
  <2> QED
    BY <2>2, <2>3
<1>6. PICK S \in SUBSET Results : S = victims
  <2>1. Held(lu) \subseteq Results
    BY DEF CacheInv, CacheTypeOK, Held
  <2> QED
    BY <1>5, <2>1
<1>7. \A q \in Results : q \in gone <=> Gone(S, q)
  BY <1>6 DEF Gone, CanBeDeallocate
<1> HIDE DEF gone, victims
<1>8. /\ alive' \subseteq Results
      /\ shareCounter' \in [Results -> Int]
      /\ isBeingDeallocate' \in [Results -> BOOLEAN]
      /\ handle' \in [Results -> {"none", "open", "detached"}]
      /\ statementIdToRelease' = None /\ UNCHANGED <<connected, closes>>
  BY <1>1, <1>2 DEF CacheInv, CacheTypeOK, PrepareMiss, AfterPrologue
<1>9. /\ r \in alive' /\ handle'[r] = "open" /\ ~isBeingDeallocate'[r]
      /\ shareCounter'[r] = IF caches THEN 2 ELSE 1
  BY <1>1, <1>2
<1>10. ASSUME NEW q \in Results, q # r
       PROVE  /\ q \in alive' <=> q \in alive /\ ~Gone(S, q)
              /\ handle'[q] = IF Gone(S, q) \/ q = statementIdToRelease THEN "none" ELSE handle[q]
              /\ isBeingDeallocate'[q] <=> Gone(S, q) \/ isBeingDeallocate[q]
              /\ shareCounter'[q] = IF q \in S /\ ~Gone(S, q) THEN shareCounter[q] - 1 ELSE shareCounter[q]
              /\ q \in Held(lu') <=> q \in Held(lu) /\ q \notin S
              /\ UserCount(serverPrepareResult', q) = UserCount(serverPrepareResult, q)
              /\ q \in S => q \in Held(lu)
  BY <1>1, <1>3, <1>5, <1>6, <1>7, <1>10 DEF AfterPrologue
<1>11. r \in Held(lu') <=> caches
  BY <1>2, <1>5
<1> HIDE DEF caches
<1>12. Exact'
  <2> SUFFICES ASSUME NEW q \in alive', ~closes \/ ~isBeingDeallocate'[q]
               PROVE  shareCounter'[q] = UserCount(serverPrepareResult', q)
                        + (IF q \in Held(lu') THEN 1 ELSE 0)
    BY <1>8 DEF Exact
  <2>1. CASE q = r
    BY <1>3, <1>9, <1>11, <2>1
  <2>2. CASE q # r
    <3>1. q \in Results
      BY <1>8
    <3> QED
      BY <1>4, <1>10, <2>2, <3>1 DEF CacheInv, Exact
  <2> QED
    BY <2>1, <2>2
<1>13. ReleasedAreMarked'
  BY <1>8, <1>9, <1>10, SetsAssumption DEF CacheInv, ReleasedAreMarked
<1>14. OwnersKeepAlive'
  <2> SUFFICES ASSUME ~closes, NEW q \in Results
               PROVE  /\ q \in alive' => ~isBeingDeallocate'[q]
                      /\ handle'[q] # "none" <=> q \in alive'
                      /\ q \in alive' <=> UserCount(serverPrepareResult', q) > 0 \/ q \in Held(lu')
    BY <1>8 DEF OwnersKeepAlive, Owned
  <2>1. CASE q = r
    BY <1>3, <1>9, <2>1
  <2>2. CASE q # r
    <3>1. /\ statementIdToRelease = None /\ q # None
          /\ q \in alive => ~isBeingDeallocate[q]
          /\ handle[q] # "none" <=> q \in alive
          /\ q \in alive <=> UserCount(serverPrepareResult, q) > 0 \/ q \in Held(lu)
      BY SetsAssumption DEF CacheInv, OwnersKeepAlive, Owned
    <3>2. q \in alive => shareCounter[q] = UserCount(serverPrepareResult, q) + (IF q \in Held(lu) THEN 1 ELSE 0)
      BY DEF CacheInv, Exact
    <3> QED
      BY <1>4, <1>10, <2>2, <3>1, <3>2 DEF Gone
  <2> QED
    BY <2>1, <2>2
<1> QED
  BY <1>3, <1>5, <1>8, <1>12, <1>13, <1>14 DEF CacheInv, CacheTypeOK

(* The cache is cleared: every entry is let go of, on handles the session may   *)
(* have forgotten and, after a command, without the one that waited in the slot.*)
LEMMA ClearedCache ==
  ASSUME CacheInv, NEW handles \in [Results -> {"none", "open", "detached"}],
         LetGo(Held(lu), handles), lu' = << >>, UNCHANGED <<serverPrepareResult, closes>>,
         connected' \in BOOLEAN, statementIdToRelease' \in {None, statementIdToRelease},
         \A q \in Results : handles[q] = "none" <=>
           handle[q] = "none" \/ (q = statementIdToRelease /\ statementIdToRelease' = None)
  PROVE  CacheInv'
<1>1. PICK S \in SUBSET Results : S = Held(lu)
  <2>1. Held(lu) \subseteq Results
    BY DEF CacheInv, CacheTypeOK, Held
  <2> QED
    BY <2>1
<1>2. /\ alive' \subseteq Results
      /\ shareCounter' \in [Results -> Int]
      /\ isBeingDeallocate' \in [Results -> BOOLEAN]
      /\ handle' \in [Results -> {"none", "open", "detached"}]
      /\ \A q \in Results :
           /\ q \in alive' <=> q \in alive /\ ~Gone(S, q)
           /\ handle'[q] = IF Gone(S, q) THEN "none" ELSE handles[q]
           /\ isBeingDeallocate'[q] <=> Gone(S, q) \/ isBeingDeallocate[q]
           /\ shareCounter'[q] = IF q \in S /\ ~Gone(S, q) THEN shareCounter[q] - 1 ELSE shareCounter[q]
  <2>1. CacheTypeOK /\ LetGo(S, handles)
    BY <1>1 DEF CacheInv
  <2> QED
    BY ONLY <2>1, LetGoEffect, S \in SUBSET Results, handles \in [Results -> {"none", "open", "detached"}]
<1>3. /\ lu' \in Seq(Keys \X Results) /\ Len(lu') <= maxSize /\ EntriesApart(lu') /\ Held(lu') = {}
  BY CacheAssumption DEF EntriesApart, Held
<1>4. \A q \in Results : UserCount(serverPrepareResult, q) \in Nat
  BY UserCountNat
<1>5. Exact'
  <2> SUFFICES ASSUME NEW q \in alive', ~closes \/ ~isBeingDeallocate'[q]
               PROVE  shareCounter'[q] = UserCount(serverPrepareResult, q)
    BY <1>2, <1>3, <1>4 DEF Exact
  <2>1. q \in Results /\ q \in alive /\ ~Gone(S, q) /\ (~closes \/ ~isBeingDeallocate[q])
    BY <1>2
  <2>2. shareCounter[q] = UserCount(serverPrepareResult, q) + (IF q \in S THEN 1 ELSE 0)
    BY <1>1, <2>1 DEF CacheInv, Exact
  <2> QED
    BY <1>2, <1>4, <2>1, <2>2
<1>6. ReleasedAreMarked'
  <2>1. \A q \in alive' : ~isBeingDeallocate'[q] => handle'[q] # "none"
    BY <1>2, SetsAssumption DEF CacheInv, CacheTypeOK, ReleasedAreMarked
  <2>2. statementIdToRelease' # None => isBeingDeallocate'[statementIdToRelease']
    BY <1>2 DEF CacheInv, CacheTypeOK, ReleasedAreMarked
  <2> QED
    BY <2>1, <2>2 DEF ReleasedAreMarked
<1>7. OwnersKeepAlive'
  <2> SUFFICES ASSUME ~closes, NEW q \in Results
               PROVE  /\ statementIdToRelease' = None
                      /\ q \in alive' => ~isBeingDeallocate'[q]
                      /\ handle'[q] # "none" <=> q \in alive'
                      /\ q \in alive' <=> UserCount(serverPrepareResult, q) > 0
    <3>1. ~closes => statementIdToRelease' = None
      BY DEF CacheInv, OwnersKeepAlive
    <3> QED
      BY <1>3, <3>1 DEF OwnersKeepAlive, Owned
  <2>1. /\ statementIdToRelease = None /\ q # None
        /\ q \in alive => ~isBeingDeallocate[q]
        /\ handle[q] # "none" <=> q \in alive
        /\ q \in alive <=> UserCount(serverPrepareResult, q) > 0 \/ q \in S
    BY <1>1, SetsAssumption DEF CacheInv, OwnersKeepAlive, Owned
  <2>2. q \in alive => shareCounter[q] = UserCount(serverPrepareResult, q) + (IF q \in S THEN 1 ELSE 0)
    BY <1>1 DEF CacheInv, Exact
  <2> QED
    BY <1>2, <1>4, <2>1, <2>2 DEF Gone
<1> QED
  BY <1>2, <1>3, <1>5, <1>6, <1>7 DEF CacheInv, CacheTypeOK

(* reset() and close() of the connection clear the cache.                       *)
LEMMA ConnectionStep == ASSUME CacheInv, ResetConnection \/ CloseConnection PROVE CacheInv'
<1>1. Cached = Held(lu)
  BY DEF Cached, Held
<1>2. CASE ResetConnection
  <2>1. PICK handles : handles = Detached(AfterPrologue)
    OBVIOUS
  <2>2. /\ handles \in [Results -> {"none", "open", "detached"}]
        /\ \A q \in Results : handles[q] = "none" <=> handle[q] = "none" \/ q = statementIdToRelease
    BY <2>1 DEF CacheInv, CacheTypeOK, Detached, AfterPrologue
  <2>3. /\ LetGo(Held(lu), handles) /\ lu' = << >> /\ UNCHANGED <<serverPrepareResult, closes>>
        /\ connected' \in BOOLEAN /\ statementIdToRelease' = None
    BY <1>1, <1>2, <2>1 DEF ResetConnection, CacheInv, CacheTypeOK
  <2> QED
    BY ONLY CacheInv, <2>2, <2>3, ClearedCache
<1>3. CASE CloseConnection
  <2>1. PICK handles : handles = Detached(handle)
    OBVIOUS
  <2>2. /\ handles \in [Results -> {"none", "open", "detached"}]
        /\ \A q \in Results : handles[q] = "none" <=> handle[q] = "none"
    BY <2>1 DEF CacheInv, CacheTypeOK, Detached
  <2>3. /\ LetGo(Held(lu), handles) /\ lu' = << >> /\ UNCHANGED <<serverPrepareResult, closes>>
        /\ connected' \in BOOLEAN /\ statementIdToRelease' = statementIdToRelease
    BY <1>1, <1>3, <2>1 DEF CloseConnection
  <2>4. \A q \in Results : q # None
    BY SetsAssumption
  <2> QED
    BY ONLY CacheInv, <2>2, <2>3, <2>4, ClearedCache
<1> QED
  BY <1>2, <1>3

(* A connection that has prepared nothing yet.                                  *)
LEMMA InitiallyExact == CacheInit => CacheInv
<1> SUFFICES ASSUME CacheInit PROVE CacheInv
  OBVIOUS
<1>1. CacheTypeOK /\ Len(lu) <= maxSize /\ EntriesApart(lu) /\ Held(lu) = {}
  BY CacheAssumption DEF CacheInit, CacheTypeOK, EntriesApart, Held
<1>2. Exact /\ ReleasedAreMarked
  BY DEF CacheInit, Exact, ReleasedAreMarked
<1>3. ASSUME NEW r \in Results PROVE ~Owned(r)
  <2>1. UsersIn(serverPrepareResult, r) = {}
    BY SetsAssumption DEF CacheInit, UsersIn
  <2> QED
    BY <1>1, <2>1, UserCountNat DEF Owned
<1>4. OwnersKeepAlive
  BY <1>3 DEF CacheInit, OwnersKeepAlive
<1> QED
  BY <1>1, <1>2, <1>4 DEF CacheInv

(* Every operation keeps the inductive invariant.                               *)
LEMMA CacheStep == CacheInv /\ [CacheNext]_cacheVars => CacheInv'
<1> SUFFICES ASSUME CacheInv, [CacheNext]_cacheVars PROVE CacheInv'
  OBVIOUS
<1>1. CASE UNCHANGED cacheVars
  BY <1>1 DEF cacheVars, resultVars, CacheInv, CacheTypeOK, Exact, ReleasedAreMarked, OwnersKeepAlive, Owned
<1>2. CASE CacheNext
  BY <1>2, PrepareHitStep, PrepareMissStep, DestroyStatementStep, CloseStatementStep, CommandStep,
     ConnectionStep DEF CacheNext
<1> QED
  BY <1>1, <1>2

(* Hence the inductive invariant always holds.                                  *)
LEMMA CacheInvariance == CacheSpec => []CacheInv
BY InitiallyExact, CacheStep, PTL DEF CacheSpec

(* It says what the counters, the cache and the handles promise.                *)
LEMMA InvariantIsEnough == CacheInv => SharesAreExact
<1> SUFFICES ASSUME CacheInv PROVE SharesAreExact
  OBVIOUS
<1>1. /\ Cached = Held(lu)
      /\ \A r \in Results : Users(r) = UsersIn(serverPrepareResult, r)
      /\ \A r \in Results : Owned(r) <=> Users(r) # {} \/ r \in Cached
  BY UserCountNat DEF Cached, Held, Users, UsersIn, Owned
<1>2. CacheTypeOK /\ CacheWellFormed
  BY DEF CacheInv, CacheWellFormed, EntriesApart
<1>3. NoDangling /\ NoServerLeak
  BY <1>1 DEF CacheInv, OwnersKeepAlive, NoDangling, NoServerLeak
<1>4. ShareCountExact
  <2> SUFFICES ASSUME NEW r \in alive, ~closes \/ ~isBeingDeallocate[r]
               PROVE  shareCounter[r] = Cardinality(Users(r)) + (IF r \in Cached THEN 1 ELSE 0)
    BY DEF ShareCountExact
  <2>1. r \in Results
    BY DEF CacheInv, CacheTypeOK
  <2>2. shareCounter[r] = UserCount(serverPrepareResult, r) + (IF r \in Held(lu) THEN 1 ELSE 0)
    BY DEF CacheInv, Exact
  <2> QED
    BY <1>1, <2>1, <2>2 DEF UserCount
<1> QED
  BY <1>2, <1>3, <1>4 DEF SharesAreExact

(* Whatever statements are prepared, closed and destroyed, and however often    *)
(* the connection is reset or closed under them: counters are exact, nothing is *)
(* gone under an owner or left without one, and the cache keeps to its size.    *)
THEOREM SharesStayExact == CacheSpec => []SharesAreExact
BY CacheInvariance, InvariantIsEnough, PTL

(* No handle is closed a second time when the last owner deletes its result.    *)
THEOREM HandlesCloseOnce == CacheSpec => NoDoubleClose
<1> DEFINE Once == \A r \in alive \ alive' : handle[r] # "none" /\ statementIdToRelease # r
<1>1. CacheInv /\ [CacheNext]_cacheVars => [Once]_cacheVars
  <2> SUFFICES ASSUME CacheInv, CacheNext, NEW r \in alive, r \notin alive'
               PROVE  handle[r] # "none" /\ statementIdToRelease # r
    OBVIOUS
  <2>1. ~isBeingDeallocate[r]
    BY DEF CacheNext, PrepareHit, PrepareMiss, DestroyStatement, CloseStatement, Command,
           ResetConnection, CloseConnection, LetGo, CanBeDeallocate
  <2>2. r # None
    BY SetsAssumption DEF CacheInv, CacheTypeOK
  <2> QED
    BY <2>1, <2>2 DEF CacheInv, ReleasedAreMarked
<1> QED
  BY <1>1, CacheInvariance, PTL DEF CacheSpec, NoDoubleClose

-----------------------------------------------------------------------------
(* ErrorPaths.                                                                  *)

(* An exception, and the records of a statement's errors.                       *)
IsException(e) == e = [class |-> e.class, state |-> e.state, code |-> e.code, shown |-> e.shown] /\ e.shown \in Nat
Ways == {"none", "text", "prepared"} \cup UNION {BatchWays(k) : k \in Kinds}
ErrorsTypeOK ==
  /\ errors = [kind |-> errors.kind, options |-> errors.options, closed |-> errors.closed, prepared |-> errors.prepared,
               connected |-> errors.connected, raised |-> errors.raised, way |-> errors.way, caught |-> errors.caught,
               failures |-> errors.failures, lossTold |-> errors.lossTold, byCaller |-> errors.byCaller]
  /\ errors.kind \in Kinds /\ errors.options \in [dump : BOOLEAN, allowLocalInfile : BOOLEAN] /\ errors.way \in Ways
  /\ errors.closed \in BOOLEAN /\ errors.prepared \in BOOLEAN /\ errors.connected \in BOOLEAN
  /\ errors.lossTold \in BOOLEAN /\ errors.byCaller \in BOOLEAN /\ errors.failures \in 0..MaxFailures
ErrorsInv == ErrorsTypeOK /\ ErrorsAreTold

LEMMA SendWays == Ways = {"none", "text", "prepared", "oneByOneText", "aggregated", "multiSend", "rewritten", "bulk", "oneByOne"}
  BY DEF Ways, BatchWays, Kinds

(* The protocol adds the query to an error and leaves state and code alone,     *)
(* unless bulk execution declares the connection lost.                          *)
LEMMA ProtocolKeepsError ==
  ASSUME NEW options \in [dump : BOOLEAN, allowLocalInfile : BOOLEAN], NEW way \in Ways \ {"none"},
         NEW error \in ServerErrors, NEW e, e = ProtocolError(options, way, ReadErrorPacket(error))
  PROVE  /\ IsException(e)
         /\ way # "bulk" => e.state = error[1] /\ e.code = error[2]
         /\ way = "bulk" => e.state = ConnectionException /\ e.code = 0
         /\ options.dump =>
              e.shown = IF way = "multiSend" \/ (way = "text" /\ error = <<Interrupted, ConnectionKilled>>) THEN 0 ELSE 1
<1> DEFINE r == ReadErrorPacket(error)
<1>1. /\ r = [class |-> "SQLException", state |-> error[1], code |-> error[2], shown |-> 0]
      /\ IsException(r) /\ error = <<error[1], error[2]>>
  BY ServerErrorsAssumption DEF ReadErrorPacket, Thrown, IsException
<1>2. ASSUME NEW shown \in BOOLEAN, NEW q, q = WithQueryIf(shown, r)
      PROVE  IsException(q) /\ q.state = error[1] /\ q.code = error[2] /\ q.shown = IF shown THEN 1 ELSE 0
  BY <1>1, <1>2 DEF WithQueryIf, Sliced, IsException
<1>3. (r.state = Interrupted /\ r.code = ConnectionKilled) <=> error = <<Interrupted, ConnectionKilled>>
  BY <1>1
<1> HIDE DEF r
<1>4. CASE way = "text"
  <2>1. e = TextError(options, r)
    BY <1>4 DEF ProtocolError, r
  <2>2. CASE error = <<Interrupted, ConnectionKilled>>
    BY <1>1, <1>3, <1>4, <2>1, <2>2 DEF TextError
  <2>3. CASE error # <<Interrupted, ConnectionKilled>>
    <3>1. e = WithQueryIf(options.dump \/ r.code = ParseError, r)
      BY <1>3, <2>1, <2>3 DEF TextError, ExceptionWithQuery
    <3>2. (options.dump \/ r.code = ParseError) \in BOOLEAN
      OBVIOUS
    <3> QED
      BY <1>2, <1>4, <2>3, <3>1, <3>2
  <2> QED
    BY <2>2, <2>3
<1>5. CASE way \in {"oneByOneText", "aggregated", "rewritten"}
  <2>1. e = WithQueryIf(options.dump \/ r.code = ParseError, r)
    BY <1>5 DEF ProtocolError, ExceptionWithQuery, ExceptionWithPrepared, r
  <2>2. (options.dump \/ r.code = ParseError) \in BOOLEAN
    OBVIOUS
  <2> QED
    BY <1>2, <1>5, <2>1, <2>2
<1>6. CASE way \in {"prepared", "oneByOne"}
  <2>1. e = WithQueryIf(options.dump, r)
    BY <1>6 DEF ProtocolError, ExceptionWithParameters, r
  <2> QED
    BY <1>2, <1>6, <2>1
<1>7. CASE way = "multiSend"
  BY <1>1, <1>7 DEF ProtocolError, r
<1>8. CASE way = "bulk"
  <2>1. e = HandleIoException(WithQueryIf(options.dump \/ r.code = ParseError, r))
    BY <1>8 DEF ProtocolError, ExceptionWithQuery, r
  <2>2. (options.dump \/ r.code = ParseError) \in BOOLEAN
    OBVIOUS
  <2>3. PICK q : q = WithQueryIf(options.dump \/ r.code = ParseError, r)
    OBVIOUS
  <2>4. IsException(q) /\ (options.dump => q.shown = 1)
    BY <1>2, <2>2, <2>3
  <2>5. e = [class |-> "SQLNonTransientConnectionException", state |-> ConnectionException, code |-> 0, shown |-> q.shown]
    BY <2>1, <2>3 DEF HandleIoException, Thrown
  <2> QED
    BY <1>8, <2>4, <2>5 DEF IsException, ConnectionException
<1> QED
  BY <1>4, <1>5, <1>6, <1>7, <1>8, SendWays

(* ExceptionFactory keeps state, code and message and picks the class.          *)
LEMMA CreateKeeps ==
  ASSUME NEW state, NEW code, NEW shown \in Nat, NEW c, c = CreateException(state, code, shown)
  PROVE  /\ IsException(c) /\ c.state = state /\ c.code = code /\ c.shown = shown
         /\ state = Interrupted => c.class = "SQLTimeoutException"
         /\ state = Unsupported => c.class = "SQLFeatureNotSupportedException"
<1>1. c = [class |-> ClassOf(state), state |-> state, code |-> code, shown |-> shown]
  BY DEF CreateException, Thrown
<1>3. state = Interrupted => ClassOf(state) = "SQLTimeoutException"
  BY DEF ClassOf, Interrupted
<1>4. state = Unsupported => ClassOf(state) = "SQLFeatureNotSupportedException"
  BY DEF ClassOf, Unsupported, Interrupted
<1> QED
  BY <1>1, <1>3, <1>4 DEF IsException

(* The epilogue of an execution, for an error that is the server's.             *)
LEMMA EpilogueKeeps ==
  ASSUME NEW options \in [dump : BOOLEAN, allowLocalInfile : BOOLEAN], NEW e, IsException(e),
         e.code = LocalInfileDisabled => e.state = SyntaxState,
         NEW c, c = ExecuteExceptionEpilogue(options, e)
  PROVE  /\ IsException(c) /\ c.state = e.state /\ c.code = e.code
         /\ e.state = Interrupted => c.class = "SQLTimeoutException"
         /\ e.state = Unsupported => c.class = "SQLFeatureNotSupportedException"
         /\ c.shown = IF e.code = LocalInfileDisabled /\ ~options.allowLocalInfile THEN 0 ELSE e.shown
<1>0. e.shown \in Nat
  BY DEF IsException
<1>1. CASE e.code = LocalInfileDisabled /\ ~options.allowLocalInfile
  <2>1. c = CreateException(SyntaxState, LocalInfileDisabled, 0)
    BY <1>1 DEF ExecuteExceptionEpilogue
  <2> QED
    BY <1>1, <2>1, CreateKeeps
<1>2. CASE ~(e.code = LocalInfileDisabled /\ ~options.allowLocalInfile)
  <2>1. c = CreateException(e.state, e.code, e.shown)
    BY <1>2 DEF ExecuteExceptionEpilogue, Create
  <2> QED
    BY <1>0, <1>2, <2>1, CreateKeeps
<1> QED
  BY <1>1, <1>2
(* What an action that fails with an exception leaves behind.                   *)
LEMMA FailsWithStep ==
  ASSUME ErrorsTypeOK, NEW e, IsException(e), NEW closed \in BOOLEAN, NEW prepared \in BOOLEAN, NEW linked \in BOOLEAN,
         NEW raised, NEW way \in Ways, FailsWith(e, closed, prepared, linked, raised, way)
  PROVE  /\ ErrorsTypeOK'
         /\ errors'.caught = e /\ errors'.raised = raised /\ errors'.way = way /\ errors'.options = errors.options
         /\ errors'.closed = closed /\ errors'.connected = linked /\ errors'.byCaller = errors.byCaller
         /\ errors'.lossTold <=> errors.lossTold \/ IsConnectionError(e)
<1> DEFINE lossTold == errors.lossTold \/ IsConnectionError(e)
<1>1. errors' = [kind |-> errors.kind, options |-> errors.options, closed |-> closed, prepared |-> prepared,
                 connected |-> linked, raised |-> raised, way |-> way, caught |-> e,
                 failures |-> errors.failures + 1, lossTold |-> lossTold, byCaller |-> errors.byCaller]
  BY DEF FailsWith, ErrorsTypeOK
<1>2. lossTold \in BOOLEAN
  BY DEF IsConnectionError
<1>3. errors.failures + 1 \in 0..MaxFailures
  BY ErrorsAssumption DEF FailsWith, ErrorsTypeOK
<1> HIDE DEF lossTold
<1>4. ErrorsTypeOK'
  BY <1>1, <1>2, <1>3 DEF ErrorsTypeOK
<1> QED
  BY <1>1, <1>4 DEF lossTold

LEMMA DeliverStep ==
  ASSUME ErrorsTypeOK, NEW e, IsException(e), e.state # ConnectionException, ~IsConnectionError(e), Deliver(e)
  PROVE  /\ ErrorsTypeOK'
         /\ errors'.caught = e /\ errors'.way = "none" /\ errors'.options = errors.options
         /\ errors'.closed = errors.closed /\ errors'.connected = errors.connected /\ errors'.byCaller = errors.byCaller
         /\ errors'.lossTold = errors.lossTold
<1>1. errors' = [kind |-> errors.kind, options |-> errors.options, closed |-> errors.closed, prepared |-> errors.prepared,
                 connected |-> errors.connected, raised |-> errors.raised, way |-> "none", caught |-> e,
                 failures |-> errors.failures + 1, lossTold |-> errors.lossTold, byCaller |-> errors.byCaller]
  BY DEF Deliver, ErrorsTypeOK
<1>3. errors.failures + 1 \in 0..MaxFailures
  BY ErrorsAssumption DEF Deliver, ErrorsTypeOK
<1>4. "none" \in Ways
  BY DEF Ways
<1>5. ErrorsTypeOK'
  BY <1>1, <1>3, <1>4 DEF ErrorsTypeOK
<1> QED
  BY <1>1, <1>5

(* A statement told of the server's error, the query shown as it should be, or  *)
(* of the loss of its connection.                                               *)
ToldRight(options, way, error, c, linked) ==
  /\ \/ c.state = ConnectionException /\ c.code = 0 /\ ~linked
     \/ /\ c.state = error[1] /\ c.code = error[2]
        /\ error[1] = Interrupted => c.class = "SQLTimeoutException"
        /\ error[1] = Unsupported => c.class = "SQLFeatureNotSupportedException"
  /\ options.dump =>
       c.shown = IF \/ way = "multiSend"
                    \/ way = "text" /\ error = <<Interrupted, ConnectionKilled>>
                    \/ c.code = LocalInfileDisabled /\ way \in {"text", "prepared"} /\ ~options.allowLocalInfile
                 THEN 0 ELSE 1

LEMMA ToldByFailure ==
  ASSUME ErrorsInv, NEW c, IsException(c), NEW closed \in BOOLEAN, NEW prepared \in BOOLEAN, NEW linked \in BOOLEAN,
         NEW error \in ServerErrors, NEW way \in Ways, FailsWith(c, closed, prepared, linked, error, way),
         ToldRight(errors.options, way, error, c, linked),
         closed => IsConnectionError(c),
         IsConnectionError(c) => closed \/ ~linked,
         linked => errors.connected, ~errors.closed
  PROVE  ErrorsInv'
<1>1. /\ ErrorsTypeOK'
      /\ errors'.caught = c /\ errors'.raised = error /\ errors'.way = way /\ errors'.options = errors.options
      /\ errors'.closed = closed /\ errors'.connected = linked /\ errors'.byCaller = errors.byCaller
      /\ errors'.lossTold <=> errors.lossTold \/ IsConnectionError(c)
  BY FailsWithStep DEF ErrorsInv
<1>2. error = <<error[1], error[2]>>
  BY ServerErrorsAssumption
<1>3. ErrorIsTheServers'
  BY <1>1, <1>2 DEF ErrorIsTheServers, OfServer, Lost, ToldRight
<1>4. ClosedForAReason'
  BY <1>1 DEF ErrorsInv, ErrorsAreTold, ClosedForAReason
<1>5. QueryIsShown'
  BY <1>1 DEF QueryIsShown, OfServer, ToldRight
<1> QED
  BY <1>1, <1>3, <1>4, <1>5 DEF ErrorsInv, ErrorsAreTold
LEMMA TextStep ==
  ASSUME ErrorsInv, NEW error \in ServerErrors, ExecuteText(error)
  PROVE  ErrorsInv'
<1>1. PICK e : e = ProtocolError(errors.options, "text", ReadErrorPacket(error))
  OBVIOUS
<1>2. "text" \in Ways \ {"none"} /\ errors.options \in [dump : BOOLEAN, allowLocalInfile : BOOLEAN]
      /\ errors.connected \in BOOLEAN /\ errors.prepared \in BOOLEAN /\ errors.closed \in BOOLEAN
  BY DEF Ways, ErrorsInv, ErrorsTypeOK
<1>3. /\ IsException(e) /\ e.state = error[1] /\ e.code = error[2]
      /\ errors.options.dump => e.shown = IF error = <<Interrupted, ConnectionKilled>> THEN 0 ELSE 1
  BY <1>1, <1>2, ProtocolKeepsError
<1>4. /\ ~errors.closed
      /\ MeansLoss(e) => FailsWith(HandleIoException(e), FALSE, errors.prepared, FALSE, error, "text")
      /\ ~MeansLoss(e) => FailsWith(ExecuteExceptionEpilogue(errors.options, e), ClosedByError(e), errors.prepared,
                                    errors.connected, error, "text")
  BY <1>1 DEF ExecuteText
<1>5. CASE MeansLoss(e)
  <2>1. PICK c : c = HandleIoException(e)
    OBVIOUS
  <2>2. c = [class |-> "SQLNonTransientConnectionException", state |-> ConnectionException, code |-> 0, shown |-> e.shown]
    BY <2>1 DEF HandleIoException, Thrown
  <2>3. IsException(c) /\ IsConnectionError(c) /\ c.code # LocalInfileDisabled
    BY <1>3, <2>2 DEF IsException, IsConnectionError, ConnectionException, LocalInfileDisabled
  <2>4. ToldRight(errors.options, "text", error, c, FALSE)
    BY <1>3, <2>2, <2>3 DEF ToldRight
  <2>5. FailsWith(c, FALSE, errors.prepared, FALSE, error, "text")
    BY <1>4, <1>5, <2>1
  <2> QED
    BY <1>2, <1>4, <2>3, <2>4, <2>5, ToldByFailure
<1>6. CASE ~MeansLoss(e)
  <2>1. PICK c : c = ExecuteExceptionEpilogue(errors.options, e)
    OBVIOUS
  <2>2. /\ IsException(c) /\ c.state = e.state /\ c.code = e.code
        /\ e.state = Interrupted => c.class = "SQLTimeoutException"
        /\ e.state = Unsupported => c.class = "SQLFeatureNotSupportedException"
        /\ c.shown = IF e.code = LocalInfileDisabled /\ ~errors.options.allowLocalInfile THEN 0 ELSE e.shown
    BY <1>2, <1>3, <2>1, EpilogueKeeps, ServerErrorsAssumption
  <2>3. ToldRight(errors.options, "text", error, c, errors.connected)
    BY <1>3, <2>2 DEF ToldRight
  <2>4. PICK closed \in BOOLEAN : closed = ClosedByError(e)
    BY <1>2 DEF ClosedByError, IsConnectionError
  <2>5. closed <=> IsConnectionError(c)
    BY <1>4, <2>2, <2>4 DEF ClosedByError, IsConnectionError
  <2>6. FailsWith(c, closed, errors.prepared, errors.connected, error, "text")
    BY <1>4, <1>6, <2>1, <2>4
  <2> QED
    BY <1>2, <1>4, <2>2, <2>3, <2>5, <2>6, ToldByFailure
<1> QED
  BY <1>5, <1>6

LEMMA PreparedStep ==
  ASSUME ErrorsInv, NEW error \in ServerErrors, ExecutePrepared(error)
  PROVE  ErrorsInv'
<1>1. PICK e : e = ProtocolError(errors.options, "prepared", ReadErrorPacket(error))
  OBVIOUS
<1>2. "prepared" \in Ways \ {"none"} /\ errors.options \in [dump : BOOLEAN, allowLocalInfile : BOOLEAN]
      /\ errors.connected \in BOOLEAN /\ errors.prepared \in BOOLEAN /\ errors.closed \in BOOLEAN
  BY DEF Ways, ErrorsInv, ErrorsTypeOK
<1>3. /\ IsException(e) /\ e.state = error[1] /\ e.code = error[2]
      /\ errors.options.dump => e.shown = 1
  BY <1>1, <1>2, ProtocolKeepsError
<1>4. PICK c : c = ExecuteExceptionEpilogue(errors.options, e)
  OBVIOUS
<1>5. PICK closed \in BOOLEAN : closed = ClosedByError(e)
  BY <1>2 DEF ClosedByError, IsConnectionError
<1>6. PICK prepared \in BOOLEAN : prepared = PreparedAfterClose(errors.kind, IsConnectionError(e))
  BY <1>2 DEF PreparedAfterClose, IsConnectionError
<1>7. ~errors.closed /\ FailsWith(c, closed, prepared, errors.connected, error, "prepared")
  BY <1>1, <1>4, <1>5, <1>6 DEF ExecutePrepared
<1>8. /\ IsException(c) /\ c.state = e.state /\ c.code = e.code
      /\ e.state = Interrupted => c.class = "SQLTimeoutException"
      /\ e.state = Unsupported => c.class = "SQLFeatureNotSupportedException"
      /\ c.shown = IF e.code = LocalInfileDisabled /\ ~errors.options.allowLocalInfile THEN 0 ELSE e.shown
  BY <1>2, <1>3, <1>4, EpilogueKeeps, ServerErrorsAssumption
<1>9. ToldRight(errors.options, "prepared", error, c, errors.connected)
  BY <1>3, <1>8 DEF ToldRight
<1>10. closed <=> IsConnectionError(c)
  BY <1>5, <1>7, <1>8 DEF ClosedByError, IsConnectionError
<1> QED
  BY <1>2, <1>7, <1>8, <1>9, <1>10, ToldByFailure

LEMMA BatchStep ==
  ASSUME ErrorsInv, NEW error \in ServerErrors, NEW way, ExecuteBatchFails(error, way)
  PROVE  ErrorsInv'
<1>1. PICK e : e = ProtocolError(errors.options, way, ReadErrorPacket(error))
  OBVIOUS
<1>2. errors.options \in [dump : BOOLEAN, allowLocalInfile : BOOLEAN] /\ errors.kind \in Kinds
      /\ errors.connected \in BOOLEAN /\ errors.prepared \in BOOLEAN /\ errors.closed \in BOOLEAN
  BY DEF ErrorsInv, ErrorsTypeOK
<1>3. way \in {"oneByOneText", "aggregated", "multiSend", "rewritten", "bulk", "oneByOne"}
  BY <1>2 DEF ExecuteBatchFails, BatchWays, Kinds
<1>4. way \in Ways \ {"none"} /\ way \notin {"text", "prepared"}
  BY <1>3, SendWays
<1>5. /\ IsException(e)
      /\ way # "bulk" => e.state = error[1] /\ e.code = error[2]
      /\ way = "bulk" => e.state = ConnectionException /\ e.code = 0
      /\ errors.options.dump => e.shown = IF way = "multiSend" THEN 0 ELSE 1
  BY <1>1, <1>2, <1>4, ProtocolKeepsError
<1>6. PICK c : c = CreateException(e.state, e.code, e.shown)
  OBVIOUS
<1>7. PICK closed \in BOOLEAN : closed = ClosedByError(e)
  BY <1>2 DEF ClosedByError, IsConnectionError
<1>8. PICK linked \in BOOLEAN : linked = (errors.connected /\ ~IsLoss(way))
  BY <1>2 DEF IsLoss
<1>9. ~errors.closed /\ FailsWith(c, closed, errors.prepared, linked, error, way)
  BY <1>1, <1>6, <1>7, <1>8 DEF ExecuteBatchFails, ExecuteBatchExceptionEpilogue, Create
<1>10. e.shown \in Nat
  BY <1>5 DEF IsException
<1>11. /\ IsException(c) /\ c.state = e.state /\ c.code = e.code /\ c.shown = e.shown
       /\ e.state = Interrupted => c.class = "SQLTimeoutException"
       /\ e.state = Unsupported => c.class = "SQLFeatureNotSupportedException"
  BY <1>6, <1>10, CreateKeeps
<1>12. way = "bulk" => ~linked
  BY <1>8 DEF IsLoss
<1>13. ToldRight(errors.options, way, error, c, linked)
  BY <1>4, <1>5, <1>11, <1>12 DEF ToldRight
<1>14. closed <=> IsConnectionError(c)
  BY <1>7, <1>9, <1>11 DEF ClosedByError, IsConnectionError
<1>15. linked => errors.connected
  BY <1>8
<1> QED
  BY <1>2, <1>4, <1>9, <1>11, <1>13, <1>14, <1>15, ToldByFailure

(* A call that the statement refuses itself is no error of the server.          *)
LEMMA RefusalStep ==
  ASSUME ErrorsInv, CheckClose \/ CallWithSql \/ UnsupportedCall
  PROVE  ErrorsInv'
<1>1. PICK m : m = CreateOfMessage
  OBVIOUS
<1>2. IsException(m) /\ m.state = SyntaxState /\ m.code = -1
  BY <1>1, CreateKeeps DEF CreateOfMessage
<1>3. PICK u : u = NotSupported
  OBVIOUS
<1>4. IsException(u) /\ u.state = Unsupported
  BY <1>3, CreateKeeps DEF NotSupported
<1>5. errors.options \in [dump : BOOLEAN, allowLocalInfile : BOOLEAN]
  BY DEF ErrorsInv, ErrorsTypeOK
<1>6. PICK c : c = ExecuteExceptionEpilogue(errors.options, m)
  OBVIOUS
<1>7. IsException(c) /\ c.state = SyntaxState
  BY <1>2, <1>5, <1>6, EpilogueKeeps DEF LocalInfileDisabled
<1>8. PICK e \in {m, u, c} : Deliver(e)
  BY <1>1, <1>3, <1>6 DEF CheckClose, CallWithSql, UnsupportedCall
<1>9. IsException(e) /\ e.state # ConnectionException /\ ~IsConnectionError(e)
  BY <1>2, <1>4, <1>7 DEF IsConnectionError, ConnectionException, SyntaxState, Unsupported
<1>10. /\ ErrorsTypeOK'
       /\ errors'.caught = e /\ errors'.way = "none" /\ errors'.options = errors.options
       /\ errors'.closed = errors.closed /\ errors'.connected = errors.connected /\ errors'.byCaller = errors.byCaller
       /\ errors'.lossTold = errors.lossTold
  BY <1>8, <1>9, DeliverStep DEF ErrorsInv
<1> QED
  BY <1>10 DEF ErrorsInv, ErrorsAreTold, ErrorIsTheServers, ClosedForAReason, QueryIsShown, OfServer

LEMMA CallerClosesStep ==
  ASSUME ErrorsInv, CloseByCaller
  PROVE  ErrorsInv'
<1>1. PICK prepared \in BOOLEAN : prepared = PreparedAfterClose(errors.kind, TRUE)
  BY DEF PreparedAfterClose, ErrorsInv, ErrorsTypeOK
<1>2. errors' = [kind |-> errors.kind, options |-> errors.options, closed |-> TRUE, prepared |-> prepared,
                 connected |-> errors.connected, raised |-> errors.raised, way |-> errors.way, caught |-> errors.caught,
                 failures |-> errors.failures, lossTold |-> errors.lossTold, byCaller |-> TRUE]
  BY <1>1 DEF CloseByCaller, ErrorsInv, ErrorsTypeOK
<1>3. ErrorsTypeOK'
  BY <1>2 DEF ErrorsInv, ErrorsTypeOK
<1> QED
  BY <1>2, <1>3 DEF ErrorsInv, ErrorsAreTold, ErrorIsTheServers, ClosedForAReason, QueryIsShown, OfServer, Lost

LEMMA ErrorsBegin == ErrorsInit => ErrorsInv
<1> SUFFICES ASSUME ErrorsInit PROVE ErrorsInv
  OBVIOUS
<1>1. PICK kind \in Kinds, dump \in BOOLEAN, infile \in BOOLEAN :
        errors = [kind |-> kind, options |-> [dump |-> dump, allowLocalInfile |-> infile], closed |-> FALSE,
                  prepared |-> TRUE, connected |-> TRUE, raised |-> <<>>, way |-> "none", caught |-> NoError, failures |-> 0,
                  lossTold |-> FALSE, byCaller |-> FALSE]
  BY DEF ErrorsInit
<1>2. "none" \in Ways /\ 0 \in 0..MaxFailures
  BY ErrorsAssumption DEF Ways
<1>3. ErrorsTypeOK
  BY <1>1, <1>2 DEF ErrorsTypeOK
<1> QED
  BY <1>1, <1>3 DEF ErrorsInv, ErrorsAreTold, ErrorIsTheServers, ClosedForAReason, QueryIsShown, OfServer

(* Through all the layers an error passes between readErrorPacket and the       *)
(* application (LogQueryTool, QueryProtocol, the statement's epilogues and      *)
(* ExceptionFactory) the application is told the server's error, with its query *)
(* once, and a statement is closed for a loss of the connection and for nothing *)
(* else: whatever errors the server raises and however many follow each other.  *)
THEOREM ErrorsReachTheCaller == ErrorsSpec => []ErrorsAreTold
<1>1. ErrorsInv /\ [ErrorsNext]_errors => ErrorsInv'
  <2> SUFFICES ASSUME ErrorsInv, [ErrorsNext]_errors PROVE ErrorsInv'
    OBVIOUS
  <2>1. CASE UNCHANGED errors
    BY <2>1 DEF ErrorsInv, ErrorsTypeOK, ErrorsAreTold, ErrorIsTheServers, ClosedForAReason, QueryIsShown, OfServer, Lost
  <2>2. CASE ErrorsNext
    BY <2>2, TextStep, PreparedStep, BatchStep, RefusalStep, CallerClosesStep DEF ErrorsNext
  <2> QED
    BY <2>1, <2>2
<1>2. ErrorsInv => ErrorsAreTold
  BY DEF ErrorsInv
<1> QED
  BY <1>1, <1>2, ErrorsBegin, PTL DEF ErrorsSpec

-----------------------------------------------------------------------------
(* ConnectionCalls: texts between quotes.                                       *)

(* The two recursions conform to the equations that define them.                *)
LEMMA EscapedCharTyped ==
  ASSUME NEW C, {"'", "\\"} \subseteq C, NEW c \in C, NEW mode \in BOOLEAN
  PROVE  EscapedChar(c, mode) \in Seq(C)
  BY DEF EscapedChar

IsWriting(w, value, mode) == \A i \in 1..Len(value) : w[i] = w[i - 1] \o EscapedChar(value[i], mode)
LEMMA EscapedIsDefined ==
  ASSUME NEW C, {"'", "\\"} \subseteq C, NEW value \in Seq(C), NEW mode \in BOOLEAN, NEW w, w = Escaped(value, mode)
  PROVE  w \in [0..Len(value) -> Seq(C)] /\ w[0] = <<>> /\ IsWriting(w, value, mode)
<1> DEFINE n == Len(value)
           F == [p \in (1..n) \X Seq(C) |-> p[2] \o EscapedChar(value[p[1]], mode)]
<1>1. n \in Nat /\ \A i \in 1..n : value[i] \in C
  OBVIOUS
<1>2. ASSUME NEW c \in C PROVE EscapedChar(c, mode) \in Seq(C)
  BY EscapedCharTyped
<1>3. ASSUME NEW i \in 1..n, NEW t \in Seq(C) PROVE t \o EscapedChar(value[i], mode) \in Seq(C)
  BY <1>1, <1>2
<1>4. F \in [(1..n) \X Seq(C) -> Seq(C)]
  BY <1>3
<1>5. <<>> \in Seq(C)
  OBVIOUS
<1>51. ASSUME NEW i \in 1..n, NEW t \in Seq(C) PROVE F[<<i, t>>] = t \o EscapedChar(value[i], mode)
  OBVIOUS
<1> HIDE DEF F, n
<1>6. PICK h : IsRun(F, Seq(C), <<>>, n, h)
  BY <1>1, <1>4, <1>5, Recursion
<1>7. h \in [0..n -> Seq(C)] /\ h[0] = <<>>
  BY <1>6 DEF IsRun
<1>8. ASSUME NEW i \in 1..n PROVE h[i] = h[i - 1] \o EscapedChar(value[i], mode)
  <2>1. i - 1 \in 0..n
    BY <1>1
  <2>2. h[i - 1] \in Seq(C) /\ h[i] = F[<<i, h[i - 1]>>]
    BY <1>6, <1>7, <2>1 DEF IsRun
  <2> QED
    BY <1>51, <2>2
<1>9. h = [i \in 0..n |-> IF i = 0 THEN <<>> ELSE h[i - 1] \o EscapedChar(value[i], mode)]
  <2>1. ASSUME NEW i \in 0..n PROVE h[i] = IF i = 0 THEN <<>> ELSE h[i - 1] \o EscapedChar(value[i], mode)
    <3>1. i = 0 \/ i \in 1..n
      BY <1>1
    <3> QED
      BY <1>7, <1>8, <3>1
  <2> QED
    BY <1>7, <2>1
<1>10. w = CHOOSE q : q = [i \in 0..n |-> IF i = 0 THEN <<>> ELSE q[i - 1] \o EscapedChar(value[i], mode)]
  BY DEF Escaped, n
<1>11. w = [i \in 0..n |-> IF i = 0 THEN <<>> ELSE w[i - 1] \o EscapedChar(value[i], mode)]
  BY <1>9, <1>10
<1>12. w[0] = <<>> /\ \A i \in 1..n : w[i] = w[i - 1] \o EscapedChar(value[i], mode)
  BY <1>1, <1>11
<1>13. PICK H : H = {i \in 0..n : w[i] \in Seq(C)}
  OBVIOUS
<1>14. 0 \in H
  <2>1. 0 \in 0..n /\ w[0] \in Seq(C)
    BY <1>1, <1>5, <1>12
  <2> QED
    BY ONLY <1>13, <2>1
<1>15. ASSUME NEW i \in 1..n, i - 1 \in H PROVE i \in H
  <2>1. w[i - 1] \in Seq(C)
    BY ONLY <1>13, <1>15
  <2>2. w[i] \in Seq(C) /\ i \in 0..n
    <3>1. w[i] = w[i - 1] \o EscapedChar(value[i], mode)
      BY <1>12
    <3>2. w[i - 1] \o EscapedChar(value[i], mode) \in Seq(C)
      BY <1>3, <2>1
    <3> QED
      BY <1>1, <3>1, <3>2
  <2> QED
    BY ONLY <1>13, <2>2
<1>16. 0..n \subseteq H
  BY <1>1, <1>14, <1>15, EveryNumber
<1>17. w \in [0..n -> Seq(C)]
  <2>1. ASSUME NEW i \in 0..n PROVE w[i] \in Seq(C)
    BY ONLY <1>13, <1>16, i \in 0..n
  <2> QED
    BY <1>11, <2>1
<1> QED
  BY <1>12, <1>17 DEF n, IsWriting
Readings(C) == [out : Seq(C), last : {"", "'", "\\"}, bad : BOOLEAN]
LEMMA ReadCharTyped ==
  ASSUME NEW C, NEW s \in Readings(C), NEW c \in C, NEW mode \in BOOLEAN
  PROVE  ReadChar(s, c, mode) \in Readings(C)
<1>1. s.out \in Seq(C)
  BY DEF Readings
<1>2. PICK o \in Seq(C) : o = Append(s.out, c)
  <2>1. Append(s.out, c) \in Seq(C)
    BY ONLY <1>1, c \in C
  <2> QED
    BY ONLY <2>1
<1>3. /\ [s EXCEPT !.out = o, !.last = ""] \in Readings(C)
      /\ [s EXCEPT !.bad = TRUE] \in Readings(C)
      /\ [s EXCEPT !.out = o] \in Readings(C)
      /\ c \in {"'", "\\"} => [s EXCEPT !.last = c] \in Readings(C)
  BY DEF Readings
<1>4. CASE s.last = "\\"
  BY <1>2, <1>3, <1>4 DEF ReadChar
<1>5. CASE s.last = "'" /\ c = "'"
  BY <1>2, <1>3, <1>5 DEF ReadChar
<1>6. CASE s.last = "'" /\ c # "'"
  BY <1>2, <1>3, <1>6 DEF ReadChar
<1>7. CASE s.last = "" /\ (c = "'" \/ (c = "\\" /\ ~mode))
  BY <1>2, <1>3, <1>7 DEF ReadChar
<1>8. CASE s.last = "" /\ ~(c = "'" \/ (c = "\\" /\ ~mode))
  BY <1>2, <1>3, <1>8 DEF ReadChar
<1> QED
  BY <1>4, <1>5, <1>6, <1>7, <1>8 DEF Readings

LEMMA TextReadIsDefined ==
  ASSUME NEW C, NEW text \in Seq(C), NEW mode \in BOOLEAN, NEW w, w = TextRead(text, mode)
  PROVE  w[0] = NothingRead /\ \A i \in 1..Len(text) : w[i] = ReadChar(w[i - 1], text[i], mode)
<1> DEFINE n == Len(text)
           S == Readings(C)
           F == [p \in (1..n) \X S |-> ReadChar(p[2], text[p[1]], mode)]
<1>1. n \in Nat /\ \A i \in 1..n : text[i] \in C
  OBVIOUS
<1>2. F \in [(1..n) \X S -> S]
  BY <1>1, ReadCharTyped
<1>3. NothingRead \in S
  <2>1. <<>> \in Seq(C)
    OBVIOUS
  <2> QED
    BY <2>1 DEF NothingRead, Readings
<1>4. ASSUME NEW i \in 1..n, NEW t \in S PROVE F[<<i, t>>] = ReadChar(t, text[i], mode)
  OBVIOUS
<1> HIDE DEF F, n, S
<1>5. PICK h : IsRun(F, S, NothingRead, n, h)
  BY <1>1, <1>2, <1>3, Recursion
<1>6. h \in [0..n -> S] /\ h[0] = NothingRead
  BY <1>5 DEF IsRun
<1>7. ASSUME NEW i \in 1..n PROVE h[i] = ReadChar(h[i - 1], text[i], mode)
  <2>1. i - 1 \in 0..n
    BY <1>1
  <2>2. h[i - 1] \in S /\ h[i] = F[<<i, h[i - 1]>>]
    BY <1>5, <1>6, <2>1 DEF IsRun
  <2> QED
    BY <1>4, <2>2
<1>8. h = [i \in 0..n |-> IF i = 0 THEN NothingRead ELSE ReadChar(h[i - 1], text[i], mode)]
  <2>1. ASSUME NEW i \in 0..n PROVE h[i] = IF i = 0 THEN NothingRead ELSE ReadChar(h[i - 1], text[i], mode)
    <3>1. i = 0 \/ i \in 1..n
      BY <1>1
    <3> QED
      BY <1>6, <1>7, <3>1
  <2> QED
    BY <1>6, <2>1
<1>9. w = CHOOSE q : q = [i \in 0..n |-> IF i = 0 THEN NothingRead ELSE ReadChar(q[i - 1], text[i], mode)]
  BY DEF TextRead, n
<1>10. w = [i \in 0..n |-> IF i = 0 THEN NothingRead ELSE ReadChar(w[i - 1], text[i], mode)]
  BY <1>8, <1>9
<1> QED
  BY <1>1, <1>10 DEF n

(* What the driver writes for a character the server reads as this character.   *)
ReadAs(s, e, mode, t) ==
  \/ Len(e) = 1 /\ ReadChar(s, e[1], mode) = t
  \/ Len(e) = 2 /\ ReadChar(ReadChar(s, e[1], mode), e[2], mode) = t
LEMMA CharIsReadBack ==
  ASSUME NEW C, NEW o \in Seq(C), NEW c \in C, NEW mode \in BOOLEAN,
         NEW s, s = [out |-> o, last |-> "", bad |-> FALSE],
         NEW p, p = Append(o, c), NEW t, t = [out |-> p, last |-> "", bad |-> FALSE],
         NEW e, e = EscapedChar(c, mode)
  PROVE  ReadAs(s, e, mode, t)
<1>1. CASE e = <<c>> /\ ~(c = "'" \/ (c = "\\" /\ ~mode))
  <2>1. ReadChar(s, c, mode) = t
    BY <1>1 DEF ReadChar
  <2>2. Len(e) = 1 /\ e[1] = c
    BY ONLY <1>1
  <2> QED
    BY ONLY <2>1, <2>2 DEF ReadAs
<1>2. CASE e = <<"'", c>> /\ c = "'"
  <2>1. ReadChar(s, "'", mode) = [out |-> o, last |-> "'", bad |-> FALSE]
    BY DEF ReadChar
  <2>2. ReadChar([out |-> o, last |-> "'", bad |-> FALSE], "'", mode) = t
    BY <1>2 DEF ReadChar
  <2>3. Len(e) = 2 /\ e[1] = "'" /\ e[2] = "'"
    BY ONLY <1>2
  <2> QED
    BY ONLY <2>1, <2>2, <2>3 DEF ReadAs
<1>3. CASE e = <<"\\", c>> /\ ~mode
  <2>1. ReadChar(s, "\\", mode) = [out |-> o, last |-> "\\", bad |-> FALSE]
    BY <1>3 DEF ReadChar
  <2>2. ReadChar([out |-> o, last |-> "\\", bad |-> FALSE], c, mode) = t
    BY <1>3 DEF ReadChar
  <2>3. Len(e) = 2 /\ e[1] = "\\" /\ e[2] = c
    BY ONLY <1>3
  <2> QED
    BY ONLY <2>1, <2>2, <2>3 DEF ReadAs
<1> QED
  BY <1>1, <1>2, <1>3 DEF EscapedChar
(* A prefix of the text is written first and stays.                             *)
IsPrefixOf(a, b) == Len(a) <= Len(b) /\ \A k \in 1..Len(a) : b[k] = a[k]
LEMMA WrittenStays ==
  ASSUME NEW C, {"'", "\\"} \subseteq C, NEW value \in Seq(C), NEW mode \in BOOLEAN, NEW w, w = Escaped(value, mode),
         NEW i \in 0..Len(value)
  PROVE  IsPrefixOf(w[i], w[Len(value)])
<1>1. PICK n \in Nat : n = Len(value)
  OBVIOUS
<1>2. w \in [0..n -> Seq(C)] /\ IsWriting(w, value, mode)
  BY <1>1, EscapedIsDefined
<1>3. PICK H : H = {j \in 0..n : j < i \/ IsPrefixOf(w[i], w[j])}
  OBVIOUS
<1>4. i \in 0..n /\ w[i] \in Seq(C)
  BY <1>1, <1>2
<1>5. 0 \in H
  <2>1. i = 0 => IsPrefixOf(w[i], w[0])
    BY <1>4 DEF IsPrefixOf
  <2> QED
    BY <1>1, <1>3, <1>4, <2>1
<1>6. ASSUME NEW j \in 1..n, j - 1 \in H PROVE j \in H
  <2>1. CASE j <= i
    <3>1. j = i => IsPrefixOf(w[i], w[j])
      BY <1>4 DEF IsPrefixOf
    <3> QED
      BY <1>3, <1>4, <2>1, <3>1
  <2>2. CASE j > i
    <3>1. IsPrefixOf(w[i], w[j - 1])
      BY <1>3, <1>4, <1>6, <2>2
    <3>2. PICK a \in Seq(C) : a = w[j - 1]
      BY <1>1, <1>2
    <3>3. PICK e \in Seq(C) : e = EscapedChar(value[j], mode)
      <4>1. value[j] \in C
        BY <1>1
      <4> QED
        BY <4>1, EscapedCharTyped
    <3>4. PICK b \in Seq(C) : b = w[j] /\ b = a \o e
      <4>1. w[j] \in Seq(C)
        BY <1>2
      <4>2. w[j] = a \o e
        BY <1>1, <1>2, <3>2, <3>3 DEF IsWriting
      <4> QED
        BY ONLY <4>1, <4>2
    <3>5. Len(b) >= Len(a) /\ \A k \in 1..Len(a) : b[k] = a[k]
      BY ONLY <3>4, a \in Seq(C), e \in Seq(C)
    <3>6. Len(w[i]) \in Nat /\ Len(a) \in Nat /\ Len(b) \in Nat
      BY ONLY <1>4, a \in Seq(C), b \in Seq(C)
    <3>7. IsPrefixOf(w[i], b)
      BY ONLY <3>1, <3>2, <3>5, <3>6 DEF IsPrefixOf
    <3>8. IsPrefixOf(w[i], w[j]) /\ j \in 0..n
      BY <3>4, <3>7
    <3> QED
      BY ONLY <1>3, <3>8
  <2> QED
    BY <1>4, <2>1, <2>2
<1>7. n \in H
  <2>1. 0..n \subseteq H
    BY <1>1, <1>5, <1>6, EveryNumber
  <2> QED
    BY <2>1
<1> QED
  BY <1>1, <1>3, <1>4, <1>7

(* A client info that the driver escapes by the mode of the session is read by  *)
(* the server as the text it was, and never as an error of syntax.              *)
LEMMA InfoIsReadBack ==
  ASSUME NEW C, {"'", "\\"} \subseteq C, NEW value \in Seq(C), value # <<>>, NEW mode \in BOOLEAN,
         NEW text, text = Escaped(value, mode)[Len(value)]
  PROVE  TextRead(text, mode)[Len(text)] = [out |-> value, last |-> "", bad |-> FALSE]
<1>1. PICK n \in Nat : n = Len(value)
  OBVIOUS
<1>2. PICK w : w = Escaped(value, mode)
  OBVIOUS
<1>3. w \in [0..n -> Seq(C)] /\ w[0] = <<>> /\ IsWriting(w, value, mode)
  BY ONLY <1>1, <1>2, EscapedIsDefined, {"'", "\\"} \subseteq C, value \in Seq(C), mode \in BOOLEAN
<1>4. text = w[n] /\ text \in Seq(C)
  BY <1>1, <1>2, <1>3
<1>5. PICK r : r = TextRead(text, mode)
  OBVIOUS
<1>6. r[0] = NothingRead /\ \A i \in 1..Len(text) : r[i] = ReadChar(r[i - 1], text[i], mode)
  BY <1>4, <1>5, TextReadIsDefined
<1>7. ASSUME NEW i \in 0..n PROVE Len(w[i]) \in 0..Len(text) /\ \A k \in 1..Len(w[i]) : text[k] = w[i][k]
  <2>1. Len(w[i]) \in Nat /\ Len(text) \in Nat
    BY <1>3, <1>4
  <2>2. IsPrefixOf(w[i], text)
    BY ONLY <1>1, <1>2, <1>4, WrittenStays, {"'", "\\"} \subseteq C, value \in Seq(C), mode \in BOOLEAN, i \in 0..n
  <2> QED
    BY ONLY <2>1, <2>2 DEF IsPrefixOf
<1> DEFINE Right(i) == [out |-> SubSeq(value, 1, i), last |-> "", bad |-> FALSE]
<1>8. PICK H : H = {i \in 0..n : r[Len(w[i])] = Right(i)}
  OBVIOUS
<1>9. 0 \in H
  <2>1. Len(w[0]) = 0 /\ SubSeq(value, 1, 0) = <<>>
    BY <1>3
  <2>2. r[Len(w[0])] = Right(0)
    BY ONLY <1>6, <2>1 DEF NothingRead
  <2> HIDE DEF Right
  <2> QED
    BY ONLY <1>8, <2>2, n \in Nat
<1>10. ASSUME NEW i \in 1..n, i - 1 \in H PROVE i \in H
  <2>1. PICK o \in Seq(C) : o = SubSeq(value, 1, i - 1)
    <3>1. SubSeq(value, 1, i - 1) \in Seq(C)
      BY ONLY <1>1, value \in Seq(C), i \in 1..n
    <3> QED
      BY ONLY <3>1
  <2>2. PICK c \in C : c = value[i]
    BY <1>1
  <2>3. SubSeq(value, 1, i) = Append(o, c)
    BY <1>1, <2>1, <2>2
  <2>4. PICK e \in Seq(C) : e = EscapedChar(c, mode)
    BY EscapedCharTyped
  <2>5. PICK a \in Seq(C) : a = w[i - 1]
    BY <1>3
  <2>6. w[i] = a \o e
    BY <1>1, <1>3, <2>2, <2>4, <2>5 DEF IsWriting
  <2>7. PICK m \in Nat : m = Len(a)
    OBVIOUS
  <2>8. Len(w[i]) = m + Len(e) /\ \A k \in 1..Len(e) : (a \o e)[m + k] = e[k]
    BY ONLY <2>6, <2>7, a \in Seq(C), e \in Seq(C)
  <2>9. PICK s : s = [out |-> o, last |-> "", bad |-> FALSE]
    OBVIOUS
  <2>10. PICK p, t : p = Append(o, c) /\ t = [out |-> p, last |-> "", bad |-> FALSE]
    OBVIOUS
  <2>11. r[m] = s
    BY <1>8, <1>10, <2>1, <2>5, <2>7, <2>9
  <2>12. Len(text) \in Nat /\ m + Len(e) <= Len(text) /\ \A k \in 1..Len(e) : text[m + k] = e[k]
    <3>1. Len(w[i]) \in 0..Len(text) /\ \A k \in 1..Len(w[i]) : text[k] = w[i][k]
      BY <1>7
    <3>2. Len(text) \in Nat /\ Len(e) \in Nat
      BY <1>4
    <3>3. m + Len(e) <= Len(text)
      BY ONLY <2>8, <3>1, <3>2
    <3>4. ASSUME NEW k \in 1..Len(e) PROVE text[m + k] = e[k]
      <4>1. m + k \in 1..Len(w[i])
        BY ONLY <2>8, <3>2, m \in Nat
      <4> QED
        BY ONLY <2>6, <2>8, <3>1, <4>1
    <3> QED
      BY ONLY <3>2, <3>3, <3>4
  <2>13. ReadAs(s, e, mode, t)
    BY ONLY <2>4, <2>9, <2>10, CharIsReadBack, o \in Seq(C), c \in C, mode \in BOOLEAN
  <2>14. r[Len(w[i])] = t
    <3>1. ASSUME Len(e) = 1, ReadChar(s, e[1], mode) = t PROVE r[Len(w[i])] = t
      <4>1. m + 1 \in 1..Len(text) /\ text[m + 1] = e[1] /\ (m + 1) - 1 = m
        BY ONLY <2>12, <3>1, m \in Nat
      <4>2. r[m + 1] = ReadChar(r[m], e[1], mode)
        BY <1>6, <4>1
      <4> QED
        BY <2>8, <2>11, <3>1, <4>2
    <3>2. ASSUME Len(e) = 2, ReadChar(ReadChar(s, e[1], mode), e[2], mode) = t PROVE r[Len(w[i])] = t
      <4>1. /\ m + 1 \in 1..Len(text) /\ text[m + 1] = e[1] /\ (m + 1) - 1 = m
            /\ m + 2 \in 1..Len(text) /\ text[m + 2] = e[2] /\ (m + 2) - 1 = m + 1
        BY ONLY <2>12, <3>2, m \in Nat
      <4>2. r[m + 1] = ReadChar(r[m], e[1], mode) /\ r[m + 2] = ReadChar(r[m + 1], e[2], mode)
        BY <1>6, <4>1
      <4> QED
        BY <2>8, <2>11, <3>2, <4>2
    <3> QED
      BY <2>13, <3>1, <3>2 DEF ReadAs
  <2>15. i \in 0..n
    OBVIOUS
  <2> QED
    BY <1>8, <2>3, <2>10, <2>14, <2>15
<1>11. n \in H
  <2>1. 0..n \subseteq H
    BY <1>9, <1>10, EveryNumber
  <2> QED
    BY <2>1
<1>12. SubSeq(value, 1, n) = value
  BY <1>1
<1> QED
  BY <1>4, <1>5, <1>8, <1>11, <1>12

-----------------------------------------------------------------------------
(* The state of a connection's calls, part by part. It is a record d, since     *)
(* setClientInfo makes several statements in one call.                          *)
Letters == {"'", "\\"} \cup UNION {{v[i] : i \in 1..Len(v)} : v \in InfoValues}
MarkTexts == SavepointNames \X Nat
Marks == [text : MarkTexts, at : Nat]
HeldMarks == [text : MarkTexts, changes : Seq(Nat)]

ServerShape(s) ==
  /\ s = [changes |-> s.changes, committed |-> s.committed, savepoints |-> s.savepoints, info |-> s.info,
          noBackslashEscapes |-> s.noBackslashEscapes, warnings |-> s.warnings]
  /\ s.changes \in Seq(Nat) /\ s.committed \in Nat /\ s.savepoints \in Seq(Marks)
  /\ s.info = [n \in InfoNames |-> s.info[n]] /\ s.noBackslashEscapes \in BOOLEAN /\ s.warnings \in Nat
ProtocolShape(p) ==
  /\ p = [connected |-> p.connected, explicitClosed |-> p.explicitClosed, noBackslashEscapes |-> p.noBackslashEscapes,
          hasWarnings |-> p.hasWarnings]
  /\ p.noBackslashEscapes \in BOOLEAN
ConnectionShape(c) ==
  /\ c = [savepointCount |-> c.savepointCount, warningsCleared |-> c.warningsCleared,
          lowercaseTableNames |-> c.lowercaseTableNames]
  /\ c.savepointCount \in Nat
DialogShape(d) ==
  /\ d = [server |-> d.server, held |-> d.held, told |-> d.told, calls |-> d.calls, cleared |-> d.cleared,
          executed |-> d.executed, atRisk |-> d.atRisk, did |-> d.did, protocol |-> d.protocol, connection |-> d.connection]
  /\ ServerShape(d.server) /\ ProtocolShape(d.protocol) /\ ConnectionShape(d.connection)
  /\ d.held \in Seq(HeldMarks) /\ d.told = [n \in InfoNames |-> d.told[n]]
  /\ d.calls \in Nat /\ d.cleared \in 0..d.calls /\ d.executed \in 0..d.calls

(* The savepoints of the server: each is one of the application's, which no     *)
(* other has the text of, and marks the changes there were when it was set.     *)
Marked(mark, held, changes) ==
  mark.text = held.text /\ mark.at = Len(held.changes) /\ IsPrefixOf(held.changes, changes)
SavepointsStand(session, held, count) ==
  /\ session.committed <= Len(session.changes)
  /\ \A i \in 1..Len(held) : held[i].text[2] < count
  /\ \A i, j \in 1..Len(held) : held[i].text[2] = held[j].text[2] => i = j
  /\ \A n \in 1..Len(session.savepoints) :
       /\ \E i \in 1..Len(held) : Marked(session.savepoints[n], held[i], session.changes)
       /\ session.committed <= session.savepoints[n].at
  /\ \A n, m \in 1..Len(session.savepoints) : n <= m => session.savepoints[n].at <= session.savepoints[m].at

InfoStands(info, given, atRisk) == \A n \in InfoNames \ atRisk : ValueOf(info[n]) = ValueOf(given[n])

(* Warnings that the server still has are of the last statement; and those that *)
(* getWarnings would ask for were not cleared.                                  *)
WarningsStand(d) ==
  /\ d.server.warnings > 0 => d.server.warnings = d.executed
  /\ d.server.warnings > 0 /\ ~d.connection.warningsCleared /\ d.protocol.hasWarnings => d.server.warnings > d.cleared

(* What the last call told.                                                     *)
ToldTrue(d) ==
  /\ d.did.what = "rollback" /\ d.did.ok => d.server.changes = d.held[d.did.to].changes
  /\ d.did.what = "read" /\ d.did.ok /\ d.did.name \notin d.atRisk => d.did.value = ValueOf(d.told[d.did.name])
  /\ d.did.what = "info" /\ d.did.name \notin d.atRisk => d.did.ok
  /\ d.did.what = "warnings" /\ d.did.of > 0 => d.did.of > d.cleared /\ d.did.of = d.executed

DialogStands(d) ==
  /\ DialogShape(d)
  /\ SavepointsStand(d.server, d.held, d.connection.savepointCount)
  /\ InfoStands(d.server.info, d.told, d.atRisk)
  /\ WarningsStand(d)
DialogInv(d) == DialogStands(d) /\ ToldTrue(d)

(* Two records that differ in what a statement of the driver leaves alone.      *)
SameData(s, t) ==
  s.changes = t.changes /\ s.committed = t.committed /\ s.savepoints = t.savepoints /\ s.info = t.info
SameCaller(d, e) == d.held = e.held /\ d.told = e.told /\ d.atRisk = e.atRisk /\ d.cleared = e.cleared

-----------------------------------------------------------------------------
LEMMA CalledStep ==
  ASSUME NEW d, DialogShape(d), NEW did, NEW r, r = Called(d, did)
  PROVE  /\ DialogShape(r) /\ SameCaller(r, d) /\ r.server = d.server /\ r.protocol = d.protocol
         /\ r.connection = d.connection /\ r.executed = d.executed /\ r.calls = d.calls + 1 /\ r.did = did
<1>1. r = [server |-> d.server, held |-> d.held, told |-> d.told, calls |-> d.calls + 1, cleared |-> d.cleared,
           executed |-> d.executed, atRisk |-> d.atRisk, did |-> did, protocol |-> d.protocol, connection |-> d.connection]
  BY DEF Called, DialogShape
<1>2. d.calls + 1 \in Nat /\ d.cleared \in 0..(d.calls + 1) /\ d.executed \in 0..(d.calls + 1)
  BY DEF DialogShape
<1> QED
  BY <1>1, <1>2 DEF DialogShape, SameCaller

(* A statement that the server has run, whatever it did to the session.         *)
LEMMA ExecutedStep ==
  ASSUME DialogShape(dialog), NEW session, ServerShape(session), NEW warned \in BOOLEAN, NEW did,
         NEW r, r = Executed(session, warned, did)
  PROVE  /\ DialogShape(r) /\ SameCaller(r, dialog) /\ SameData(r.server, session)
         /\ r.protocol.connected = dialog.protocol.connected
         /\ r.connection.savepointCount = dialog.connection.savepointCount
         /\ r.server.warnings > 0 => r.server.warnings = r.executed
         /\ r.executed = dialog.calls + 1 /\ r.calls = dialog.calls + 1 /\ r.did = did
<1>1. PICK s : s = [changes |-> session.changes, committed |-> session.committed, savepoints |-> session.savepoints,
                    info |-> session.info, noBackslashEscapes |-> session.noBackslashEscapes,
                    warnings |-> IF warned THEN dialog.calls + 1 ELSE 0]
  OBVIOUS
<1>2. PICK p : p = [connected |-> dialog.protocol.connected, explicitClosed |-> dialog.protocol.explicitClosed,
                    noBackslashEscapes |-> session.noBackslashEscapes, hasWarnings |-> warned]
  OBVIOUS
<1>3. PICK c : c = [savepointCount |-> dialog.connection.savepointCount, warningsCleared |-> FALSE,
                    lowercaseTableNames |-> dialog.connection.lowercaseTableNames]
  OBVIOUS
<1>4. r = [server |-> s, held |-> dialog.held, told |-> dialog.told, calls |-> dialog.calls + 1, cleared |-> dialog.cleared,
           executed |-> dialog.calls + 1, atRisk |-> dialog.atRisk, did |-> did, protocol |-> p, connection |-> c]
  BY <1>1, <1>2, <1>3 DEF Executed, Called, DialogShape, ServerShape, ProtocolShape, ConnectionShape
<1>5. dialog.calls + 1 \in Nat /\ dialog.cleared \in 0..(dialog.calls + 1)
  BY DEF DialogShape
<1>6. ServerShape(s) /\ SameData(s, session) /\ (s.warnings > 0 => s.warnings = dialog.calls + 1)
  BY <1>1, <1>5 DEF ServerShape, SameData
<1>7. ProtocolShape(p) /\ p.connected = dialog.protocol.connected
  BY <1>2 DEF ServerShape, ProtocolShape
<1>8. ConnectionShape(c) /\ c.savepointCount = dialog.connection.savepointCount
  BY <1>3 DEF DialogShape, ConnectionShape
<1> QED
  BY <1>4, <1>5, <1>6, <1>7, <1>8 DEF DialogShape, SameCaller

LEMMA ThrowingStep ==
  ASSUME DialogShape(dialog), NEW what, NEW r, r = Throwing(what)
  PROVE  /\ DialogShape(r) /\ SameCaller(r, dialog) /\ r.server = dialog.server
         /\ r.connection.savepointCount = dialog.connection.savepointCount
         /\ ~r.protocol.hasWarnings /\ r.executed = dialog.executed /\ r.did = [what |-> what, ok |-> FALSE]
<1>1. PICK p : p = [connected |-> dialog.protocol.connected, explicitClosed |-> dialog.protocol.explicitClosed,
                    noBackslashEscapes |-> dialog.protocol.noBackslashEscapes, hasWarnings |-> FALSE]
  OBVIOUS
<1>2. PICK c : c = [savepointCount |-> dialog.connection.savepointCount, warningsCleared |-> FALSE,
                    lowercaseTableNames |-> dialog.connection.lowercaseTableNames]
  OBVIOUS
<1>3. r = [server |-> dialog.server, held |-> dialog.held, told |-> dialog.told, calls |-> dialog.calls + 1,
           cleared |-> dialog.cleared, executed |-> dialog.executed, atRisk |-> dialog.atRisk,
           did |-> [what |-> what, ok |-> FALSE], protocol |-> p, connection |-> c]
  BY <1>1, <1>2 DEF Throwing, Called, DialogShape, ServerShape, ProtocolShape, ConnectionShape
<1>4. dialog.calls + 1 \in Nat /\ dialog.cleared \in 0..(dialog.calls + 1) /\ dialog.executed \in 0..(dialog.calls + 1)
  BY DEF DialogShape
<1>5. ProtocolShape(p) /\ ~p.hasWarnings
  BY <1>1 DEF DialogShape, ProtocolShape
<1>6. ConnectionShape(c) /\ c.savepointCount = dialog.connection.savepointCount
  BY <1>2 DEF DialogShape, ConnectionShape
<1> QED
  BY <1>3, <1>4, <1>5, <1>6 DEF DialogShape, SameCaller

(* A statement keeps what stands when the session it leaves still has its       *)
(* savepoints and the client info.                                              *)
LEMMA ExecutedStands ==
  ASSUME DialogStands(dialog), NEW session, ServerShape(session), NEW warned \in BOOLEAN, NEW did,
         session.info = dialog.server.info,
         SavepointsStand(session, dialog.held, dialog.connection.savepointCount),
         NEW r, r = Executed(session, warned, did)
  PROVE  /\ DialogStands(r) /\ SameCaller(r, dialog) /\ r.server.changes = session.changes /\ r.did = did
         /\ r.executed = dialog.calls + 1 /\ r.connection.savepointCount = dialog.connection.savepointCount
         /\ SameData(r.server, session)
<1>1. DialogShape(dialog)
  BY DEF DialogStands
<1>2. /\ DialogShape(r) /\ SameCaller(r, dialog) /\ SameData(r.server, session)
      /\ r.connection.savepointCount = dialog.connection.savepointCount
      /\ r.server.warnings > 0 => r.server.warnings = r.executed
      /\ r.executed = dialog.calls + 1 /\ r.calls = dialog.calls + 1 /\ r.did = did
  BY <1>1, ExecutedStep
<1>3. SavepointsStand(r.server, r.held, r.connection.savepointCount)
  BY <1>2 DEF SavepointsStand, SameData, SameCaller
<1>4. InfoStands(r.server.info, r.told, r.atRisk)
  BY <1>2 DEF DialogStands, SameData, SameCaller
<1>5. dialog.calls \in Nat /\ dialog.cleared \in 0..dialog.calls
  BY <1>1 DEF DialogShape
<1>6. WarningsStand(r)
  BY <1>2, <1>5 DEF WarningsStand, SameCaller
<1> QED
  BY <1>2, <1>3, <1>4, <1>6 DEF DialogStands, SameData

LEMMA ThrowingStands ==
  ASSUME DialogStands(dialog), NEW what, what # "info", what # "warnings", NEW r, r = Throwing(what)
  PROVE  DialogInv(r) /\ SameCaller(r, dialog) /\ r.server = dialog.server
         /\ r.connection.savepointCount = dialog.connection.savepointCount
<1>1. DialogShape(dialog)
  BY DEF DialogStands
<1>2. /\ DialogShape(r) /\ SameCaller(r, dialog) /\ r.server = dialog.server
      /\ r.connection.savepointCount = dialog.connection.savepointCount
      /\ ~r.protocol.hasWarnings /\ r.executed = dialog.executed /\ r.did = [what |-> what, ok |-> FALSE]
  BY <1>1, ThrowingStep
<1>3. SavepointsStand(r.server, r.held, r.connection.savepointCount)
  BY <1>2 DEF DialogStands, SameCaller
<1>4. InfoStands(r.server.info, r.told, r.atRisk)
  BY <1>2 DEF DialogStands, SameCaller
<1>5. WarningsStand(r)
  BY <1>2 DEF WarningsStand, DialogStands
<1>6. ToldTrue(r)
  BY <1>2 DEF ToldTrue
<1> QED
  BY <1>2, <1>3, <1>4, <1>5, <1>6 DEF DialogStands, DialogInv

(* One that only tells: a call that leaves everything else.                     *)
LEMMA CalledStands ==
  ASSUME DialogStands(dialog), NEW did, NEW r, r = Called(dialog, did)
  PROVE  /\ DialogStands(r) /\ SameCaller(r, dialog) /\ r.server = dialog.server /\ r.protocol = dialog.protocol
         /\ r.connection = dialog.connection /\ r.executed = dialog.executed /\ r.calls = dialog.calls + 1 /\ r.did = did
<1>1. DialogShape(dialog)
  BY DEF DialogStands
<1>2. /\ DialogShape(r) /\ SameCaller(r, dialog) /\ r.server = dialog.server /\ r.protocol = dialog.protocol
      /\ r.connection = dialog.connection /\ r.executed = dialog.executed /\ r.calls = dialog.calls + 1 /\ r.did = did
  BY <1>1, CalledStep
<1>3. SavepointsStand(r.server, r.held, r.connection.savepointCount) /\ InfoStands(r.server.info, r.told, r.atRisk)
  BY <1>2 DEF DialogStands, SameCaller
<1>4. WarningsStand(r)
  BY <1>2 DEF WarningsStand, DialogStands, SameCaller
<1> QED
  BY <1>2, <1>3, <1>4 DEF DialogStands

LEMMA HeldAreTyped ==
  ASSUME NEW held \in Seq(HeldMarks)
  PROVE  \A i \in 1..Len(held) : held[i].changes \in Seq(Nat) /\ held[i].text \in MarkTexts
<1>1. \A i \in 1..Len(held) : held[i] \in HeldMarks
  OBVIOUS
<1> QED
  BY <1>1 DEF HeldMarks

LEMMA NothingToldIsTrue ==
  ASSUME NEW d, d.did.what = "nothing"
  PROVE  ToldTrue(d)
BY DEF ToldTrue

-----------------------------------------------------------------------------
(* Statements of the application.                                               *)
LEMMA ApplicationExecutesStep ==
  ASSUME DialogInv(dialog), ApplicationExecutes
  PROVE  DialogInv(dialog')
<1>1. DialogStands(dialog) /\ DialogShape(dialog) /\ ServerShape(dialog.server)
  BY DEF DialogInv, DialogStands, DialogShape
<1>2. PICK s : s = [dialog.server EXCEPT !.changes = Append(dialog.server.changes, dialog.calls + 1)]
  OBVIOUS
<1>3. PICK warned \in BOOLEAN : dialog' = Executed(s, warned, Nothing)
  BY <1>2 DEF ApplicationExecutes
<1>4. PICK c : c = Append(dialog.server.changes, dialog.calls + 1)
  OBVIOUS
<1>5. dialog.server.changes \in Seq(Nat) /\ dialog.calls + 1 \in Nat
  BY <1>1 DEF DialogShape, ServerShape
<1>6. c \in Seq(Nat) /\ Len(c) = Len(dialog.server.changes) + 1 /\ \A k \in 1..Len(dialog.server.changes) : c[k] = dialog.server.changes[k]
  BY ONLY <1>4, <1>5
<1>7. s = [changes |-> c, committed |-> dialog.server.committed, savepoints |-> dialog.server.savepoints,
           info |-> dialog.server.info, noBackslashEscapes |-> dialog.server.noBackslashEscapes, warnings |-> dialog.server.warnings]
  BY <1>1, <1>2, <1>4 DEF ServerShape
<1>8. ServerShape(s)
  BY <1>1, <1>6, <1>7 DEF ServerShape
<1>9. SavepointsStand(s, dialog.held, dialog.connection.savepointCount)
  <2>1. ASSUME NEW a, IsPrefixOf(a, dialog.server.changes), a \in Seq(Nat)
        PROVE  IsPrefixOf(a, c)
    BY <1>5, <1>6, <2>1 DEF IsPrefixOf
  <2>2. \A i \in 1..Len(dialog.held) : dialog.held[i].changes \in Seq(Nat)
    BY <1>1, HeldAreTyped DEF DialogStands, DialogShape
  <2>3. ASSUME NEW n \in 1..Len(s.savepoints)
        PROVE  \E i \in 1..Len(dialog.held) : Marked(s.savepoints[n], dialog.held[i], s.changes)
    <3>1. PICK i \in 1..Len(dialog.held) : Marked(dialog.server.savepoints[n], dialog.held[i], dialog.server.changes)
      BY <1>1, <1>7 DEF DialogStands, SavepointsStand
    <3> QED
      BY <1>7, <2>1, <2>2, <3>1 DEF Marked
  <2>4. SavepointsStand(dialog.server, dialog.held, dialog.connection.savepointCount)
    BY <1>1 DEF DialogStands
  <2>5. Len(c) >= Len(dialog.server.changes)
    BY <1>5, <1>6
  <2>6. dialog.server.committed <= Len(c)
    BY <1>1, <1>5, <1>6, <2>4, <2>5 DEF SavepointsStand, ServerShape
  <2>7. s.committed = dialog.server.committed /\ s.savepoints = dialog.server.savepoints /\ s.changes = c
    BY <1>7
  <2> QED
    BY <2>3, <2>4, <2>6, <2>7 DEF SavepointsStand
<1>10. s.info = dialog.server.info
  BY <1>7
<1>11. DialogStands(dialog') /\ (dialog').did = Nothing
  BY ONLY <1>1, <1>3, <1>8, <1>9, <1>10, ExecutedStands
<1> QED
  BY <1>11, NothingToldIsTrue DEF DialogInv, Nothing

LEMMA SetSqlModeStep ==
  ASSUME DialogInv(dialog), SetSqlMode
  PROVE  DialogInv(dialog')
<1>1. DialogStands(dialog) /\ DialogShape(dialog) /\ ServerShape(dialog.server)
  BY DEF DialogInv, DialogStands, DialogShape
<1>2. PICK s : s = [dialog.server EXCEPT !.noBackslashEscapes = ~dialog.server.noBackslashEscapes]
  OBVIOUS
<1>3. PICK warned \in BOOLEAN : dialog' = Executed(s, warned, Nothing)
  BY <1>2 DEF SetSqlMode
<1>4. s = [changes |-> dialog.server.changes, committed |-> dialog.server.committed, savepoints |-> dialog.server.savepoints,
           info |-> dialog.server.info, noBackslashEscapes |-> ~dialog.server.noBackslashEscapes, warnings |-> dialog.server.warnings]
  BY <1>1, <1>2 DEF ServerShape
<1>5. ServerShape(s)
  BY <1>1, <1>4 DEF ServerShape
<1>6. SavepointsStand(s, dialog.held, dialog.connection.savepointCount)
  BY <1>1, <1>4 DEF DialogStands, SavepointsStand
<1>7. s.info = dialog.server.info
  BY <1>4
<1>8. DialogStands(dialog') /\ (dialog').did = Nothing
  BY ONLY <1>1, <1>3, <1>5, <1>6, <1>7, ExecutedStands
<1> QED
  BY <1>8, NothingToldIsTrue DEF DialogInv, Nothing

LEMMA CommitStep ==
  ASSUME DialogInv(dialog), Commit
  PROVE  DialogInv(dialog')
<1>1. DialogStands(dialog) /\ DialogShape(dialog) /\ ServerShape(dialog.server)
  BY DEF DialogInv, DialogStands, DialogShape
<1>2. PICK s : s = [dialog.server EXCEPT !.committed = Len(dialog.server.changes), !.savepoints = <<>>]
  OBVIOUS
<1>3. PICK warned \in BOOLEAN : dialog' = Executed(s, warned, Nothing)
  BY <1>2 DEF Commit
<1>4. s = [changes |-> dialog.server.changes, committed |-> Len(dialog.server.changes), savepoints |-> <<>>,
           info |-> dialog.server.info, noBackslashEscapes |-> dialog.server.noBackslashEscapes, warnings |-> dialog.server.warnings]
  BY <1>1, <1>2 DEF ServerShape
<1>5. ServerShape(s)
  BY <1>1, <1>4 DEF ServerShape
<1>6. SavepointsStand(s, dialog.held, dialog.connection.savepointCount)
  <2>1. s.committed <= Len(s.changes) /\ Len(s.savepoints) = 0
    BY <1>1, <1>4 DEF ServerShape
  <2> QED
    BY <1>1, <2>1 DEF DialogStands, SavepointsStand
<1>7. s.info = dialog.server.info
  BY <1>4
<1>8. DialogStands(dialog') /\ (dialog').did = Nothing
  BY ONLY <1>1, <1>3, <1>5, <1>6, <1>7, ExecutedStands
<1> QED
  BY <1>8, NothingToldIsTrue DEF DialogInv, Nothing

-----------------------------------------------------------------------------
(* Savepoints.                                                                  *)

(* What the server has of a text, or nothing.                                   *)
LEMMA PlaceIsRight ==
  ASSUME NEW text, NEW n, n = Place(text), n # 0, DialogShape(dialog)
  PROVE  n \in 1..Len(dialog.server.savepoints) /\ dialog.server.savepoints[n].text = text
<1>1. PICK T : T = {i \in 1..Len(dialog.server.savepoints) : dialog.server.savepoints[i].text = text}
  OBVIOUS
<1>2. n = IF T # {} THEN Min(T) ELSE 0
  BY <1>1 DEF Place, SelectInSeq
<1>3. dialog.server.savepoints \in Seq(Marks)
  BY DEF DialogShape, ServerShape
<1>4. T \subseteq Nat /\ T # {}
  BY <1>1, <1>2, <1>3
<1>5. \E x \in T : \A y \in T : x <= y
  BY ONLY <1>4, LeastNumber
<1>6. n \in T
  BY <1>2, <1>4, <1>5 DEF Min
<1> QED
  BY <1>1, <1>6

(* Some of the first savepoints, and of the changes at least those they mark.   *)
LEMMA FewerSavepoints ==
  ASSUME NEW s, ServerShape(s), NEW held \in Seq(HeldMarks), NEW count, SavepointsStand(s, held, count),
         NEW t, ServerShape(t), t.committed = s.committed, NEW n \in 0..Len(s.savepoints),
         t.savepoints = SubSeq(s.savepoints, 1, n), IsPrefixOf(t.changes, s.changes), t.committed <= Len(t.changes),
         \A k \in 1..n : s.savepoints[k].at <= Len(t.changes)
  PROVE  SavepointsStand(t, held, count)
<1>1. s.savepoints \in Seq(Marks) /\ s.changes \in Seq(Nat) /\ t.changes \in Seq(Nat)
  BY DEF ServerShape
<1>2. Len(t.savepoints) = n /\ (\A k \in 1..n : t.savepoints[k] = s.savepoints[k]) /\ 1..n \subseteq 1..Len(s.savepoints)
  BY <1>1
<1>3. ASSUME NEW k \in 1..n
      PROVE  \E i \in 1..Len(held) : Marked(t.savepoints[k], held[i], t.changes)
  <2>1. PICK i \in 1..Len(held) : Marked(s.savepoints[k], held[i], s.changes)
    BY <1>2 DEF SavepointsStand
  <2>2. held[i].changes \in Seq(Nat)
    BY HeldAreTyped
  <2>3. Len(held[i].changes) <= Len(t.changes)
    BY <2>1 DEF Marked
  <2>4. IsPrefixOf(held[i].changes, t.changes)
    BY <1>1, <2>1, <2>2, <2>3 DEF Marked, IsPrefixOf
  <2> QED
    BY <1>2, <2>1, <2>4 DEF Marked
<1>4. \A k \in 1..n : t.committed <= t.savepoints[k].at
  BY <1>2 DEF SavepointsStand
<1>5. \A k, m \in 1..n : k <= m => t.savepoints[k].at <= t.savepoints[m].at
  BY <1>2 DEF SavepointsStand
<1> QED
  BY <1>2, <1>3, <1>4, <1>5 DEF SavepointsStand

LEMMA CountUpStands ==
  ASSUME NEW d, DialogInv(d), NEW r, NEW count, count = NextSavepoint(d.connection.savepointCount),
         r = [d EXCEPT !.connection.savepointCount = count]
  PROVE  DialogInv(r)
<1>1. DialogShape(d) /\ ConnectionShape(d.connection)
  BY DEF DialogInv, DialogStands, DialogShape
<1>2. PICK c : c = [savepointCount |-> count, warningsCleared |-> d.connection.warningsCleared,
                    lowercaseTableNames |-> d.connection.lowercaseTableNames]
  OBVIOUS
<1>3. r = [server |-> d.server, held |-> d.held, told |-> d.told, calls |-> d.calls, cleared |-> d.cleared,
           executed |-> d.executed, atRisk |-> d.atRisk, did |-> d.did, protocol |-> d.protocol, connection |-> c]
  BY <1>1, <1>2 DEF DialogShape, ConnectionShape
<1>4. count \in Nat /\ count = d.connection.savepointCount + 1 /\ d.connection.savepointCount \in Nat
  BY <1>1 DEF ConnectionShape, NextSavepoint
<1>5. ConnectionShape(c) /\ c.savepointCount = count /\ c.warningsCleared = d.connection.warningsCleared
  BY <1>2, <1>4 DEF ConnectionShape
<1>6. DialogShape(r)
  BY <1>1, <1>3, <1>5 DEF DialogShape
<1>7. d.held \in Seq(HeldMarks)
  BY <1>1 DEF DialogShape
<1>8. SavepointsStand(d.server, d.held, d.connection.savepointCount)
  BY DEF DialogInv, DialogStands
<1>9. \A i \in 1..Len(d.held) : d.held[i].text[2] < count
  <2>1. \A i \in 1..Len(d.held) : d.held[i].text \in MarkTexts
    BY <1>7, HeldAreTyped
  <2>2. \A i \in 1..Len(d.held) : d.held[i].text[2] \in Nat
    BY <2>1 DEF MarkTexts
  <2> QED
    BY <1>4, <1>8, <2>2 DEF SavepointsStand
<1>10. SavepointsStand(r.server, r.held, r.connection.savepointCount)
  BY <1>3, <1>5, <1>8, <1>9 DEF SavepointsStand
<1>11. InfoStands(r.server.info, r.told, r.atRisk)
  BY <1>3 DEF DialogInv, DialogStands
<1>12. WarningsStand(r)
  BY <1>3, <1>5 DEF DialogInv, DialogStands, WarningsStand
<1>13. ToldTrue(r)
  BY <1>3 DEF DialogInv, ToldTrue
<1> QED
  BY <1>6, <1>10, <1>11, <1>12, <1>13 DEF DialogInv, DialogStands

LEMMA RollbackToStep ==
  ASSUME DialogInv(dialog), NEW i \in 1..Len(dialog.held), RollbackTo(i)
  PROVE  DialogInv(dialog')
<1>1. DialogStands(dialog) /\ DialogShape(dialog) /\ ServerShape(dialog.server) /\ dialog.held \in Seq(HeldMarks)
  BY DEF DialogInv, DialogStands, DialogShape
<1>2. PICK n : n = Place(dialog.held[i].text)
  OBVIOUS
<1>3. CASE ~CanExecute \/ n = 0
  <2>1. dialog' = Throwing("rollback")
    BY <1>2, <1>3 DEF RollbackTo
  <2>2. "rollback" # "info" /\ "rollback" # "warnings"
    OBVIOUS
  <2> QED
    BY ONLY <1>1, <2>1, <2>2, ThrowingStands
<1>4. CASE CanExecute /\ n # 0
  <2>1. PICK c, p, s : /\ c = SubSeq(dialog.server.changes, 1, dialog.server.savepoints[n].at)
                       /\ p = SubSeq(dialog.server.savepoints, 1, n)
                       /\ s = [dialog.server EXCEPT !.changes = c, !.savepoints = p]
    OBVIOUS
  <2>2. PICK did : did = [what |-> "rollback", ok |-> TRUE, to |-> i]
    OBVIOUS
  <2>3. PICK warned \in BOOLEAN : dialog' = Executed(s, warned, did)
    BY <1>2, <1>4, <2>1, <2>2 DEF RollbackTo
  <2>4. n \in 1..Len(dialog.server.savepoints) /\ dialog.server.savepoints[n].text = dialog.held[i].text
    BY ONLY <1>1, <1>2, <1>4, PlaceIsRight
  <2>5. SavepointsStand(dialog.server, dialog.held, dialog.connection.savepointCount)
    BY <1>1 DEF DialogStands
  <2>6. Marked(dialog.server.savepoints[n], dialog.held[i], dialog.server.changes)
    <3>1. PICK j \in 1..Len(dialog.held) : Marked(dialog.server.savepoints[n], dialog.held[j], dialog.server.changes)
      BY <2>4, <2>5 DEF SavepointsStand
    <3>2. i = j
      BY <2>4, <2>5, <3>1 DEF SavepointsStand, Marked
    <3> QED
      BY <3>1, <3>2
  <2>7. dialog.held[i].changes \in Seq(Nat)
    BY <1>1, HeldAreTyped
  <2>8. /\ dialog.server.changes \in Seq(Nat) /\ dialog.server.savepoints \in Seq(Marks) /\ dialog.server.committed \in Nat
    BY <1>1 DEF ServerShape
  <2>9. c = dialog.held[i].changes
    <3>1. PICK h : h = dialog.held[i].changes
      OBVIOUS
    <3>2. PICK a : a = dialog.server.changes
      OBVIOUS
    <3>3. h \in Seq(Nat) /\ a \in Seq(Nat) /\ Len(h) <= Len(a) /\ (\A k \in 1..Len(h) : a[k] = h[k]) /\ c = SubSeq(a, 1, Len(h))
      BY <2>1, <2>6, <2>7, <2>8, <3>1, <3>2 DEF Marked, IsPrefixOf
    <3>4. PICK m \in Nat : m = Len(h)
      BY <3>3
    <3>5. c \in Seq(Nat) /\ Len(c) = m /\ \A k \in 1..m : c[k] = a[k]
      BY ONLY <3>3, <3>4
    <3>6. \A k \in 1..m : c[k] = h[k]
      BY ONLY <3>3, <3>4, <3>5
    <3> QED
      BY ONLY <3>1, <3>3, <3>4, <3>5, <3>6
  <2>10. p \in Seq(Marks)
    BY ONLY <2>1, <2>4, <2>8
  <2>11. s = [changes |-> c, committed |-> dialog.server.committed, savepoints |-> p,
              info |-> dialog.server.info, noBackslashEscapes |-> dialog.server.noBackslashEscapes, warnings |-> dialog.server.warnings]
    BY <1>1, <2>1 DEF ServerShape
  <2>12. ServerShape(s)
    BY <1>1, <2>7, <2>9, <2>10, <2>11 DEF ServerShape
  <2>13. /\ s.committed = dialog.server.committed /\ s.changes = c /\ s.savepoints = SubSeq(dialog.server.savepoints, 1, n)
         /\ s.info = dialog.server.info
    BY <2>1, <2>11
  <2>14. IsPrefixOf(s.changes, dialog.server.changes) /\ Len(s.changes) = dialog.server.savepoints[n].at
    BY <2>6, <2>9, <2>13 DEF Marked
  <2>15. s.committed <= Len(s.changes) /\ \A k \in 1..n : dialog.server.savepoints[k].at <= Len(s.changes)
    <3>1. 1..n \subseteq 1..Len(dialog.server.savepoints)
      BY <2>4, <2>8
    <3>2. \A k \in 1..n : k <= n
      BY <2>4
    <3> QED
      BY <2>4, <2>5, <2>13, <2>14, <3>1, <3>2 DEF SavepointsStand
  <2>16. n \in 0..Len(dialog.server.savepoints)
    BY <2>4
  <2>17. SavepointsStand(s, dialog.held, dialog.connection.savepointCount)
    BY ONLY <1>1, <2>5, <2>12, <2>13, <2>14, <2>15, <2>16, FewerSavepoints
  <2>18. DialogStands(dialog') /\ SameCaller(dialog', dialog) /\ (dialog').server.changes = s.changes /\ (dialog').did = did
    BY ONLY <1>1, <2>3, <2>12, <2>13, <2>17, ExecutedStands
  <2>19. ToldTrue(dialog')
    BY <2>2, <2>9, <2>13, <2>18 DEF ToldTrue, SameCaller
  <2> QED
    BY <2>18, <2>19 DEF DialogInv
<1> QED
  BY <1>3, <1>4

LEMMA ReleaseSavepointStep ==
  ASSUME DialogInv(dialog), NEW i \in 1..Len(dialog.held), ReleaseSavepoint(i)
  PROVE  DialogInv(dialog')
<1>1. DialogStands(dialog) /\ DialogShape(dialog) /\ ServerShape(dialog.server) /\ dialog.held \in Seq(HeldMarks)
  BY DEF DialogInv, DialogStands, DialogShape
<1>2. PICK n : n = Place(dialog.held[i].text)
  OBVIOUS
<1>3. CASE ~CanExecute \/ n = 0
  <2>1. dialog' = Throwing("release")
    BY <1>2, <1>3 DEF ReleaseSavepoint
  <2>2. "release" # "info" /\ "release" # "warnings"
    OBVIOUS
  <2> QED
    BY ONLY <1>1, <2>1, <2>2, ThrowingStands
<1>4. CASE CanExecute /\ n # 0
  <2>1. PICK p, s : p = SubSeq(dialog.server.savepoints, 1, n - 1) /\ s = [dialog.server EXCEPT !.savepoints = p]
    OBVIOUS
  <2>2. PICK did : did = [what |-> "release", ok |-> TRUE]
    OBVIOUS
  <2>3. PICK warned \in BOOLEAN : dialog' = Executed(s, warned, did)
    BY <1>2, <1>4, <2>1, <2>2 DEF ReleaseSavepoint
  <2>4. n \in 1..Len(dialog.server.savepoints)
    BY ONLY <1>1, <1>2, <1>4, PlaceIsRight
  <2>5. SavepointsStand(dialog.server, dialog.held, dialog.connection.savepointCount)
    BY <1>1 DEF DialogStands
  <2>6. /\ dialog.server.changes \in Seq(Nat) /\ dialog.server.savepoints \in Seq(Marks) /\ dialog.server.committed \in Nat
    BY <1>1 DEF ServerShape
  <2>7. n - 1 \in 0..Len(dialog.server.savepoints)
    BY <2>4, <2>6
  <2>8. p \in Seq(Marks)
    BY ONLY <2>1, <2>6, <2>7
  <2>9. s = [changes |-> dialog.server.changes, committed |-> dialog.server.committed, savepoints |-> p,
             info |-> dialog.server.info, noBackslashEscapes |-> dialog.server.noBackslashEscapes, warnings |-> dialog.server.warnings]
    BY <1>1, <2>1 DEF ServerShape
  <2>10. ServerShape(s)
    BY <1>1, <2>8, <2>9 DEF ServerShape
  <2>11. /\ s.committed = dialog.server.committed /\ s.changes = dialog.server.changes
         /\ s.savepoints = SubSeq(dialog.server.savepoints, 1, n - 1) /\ s.info = dialog.server.info
    BY <2>1, <2>9
  <2>12. IsPrefixOf(s.changes, dialog.server.changes) /\ s.committed <= Len(s.changes)
    BY <2>5, <2>6, <2>11 DEF IsPrefixOf, SavepointsStand
  <2>13. \A k \in 1..(n - 1) : dialog.server.savepoints[k].at <= Len(s.changes)
    <3>1. SUFFICES ASSUME NEW k \in 1..(n - 1) PROVE dialog.server.savepoints[k].at <= Len(s.changes)
      OBVIOUS
    <3>2. PICK j \in 1..Len(dialog.held) : Marked(dialog.server.savepoints[k], dialog.held[j], dialog.server.changes)
      <4>1. k \in 1..Len(dialog.server.savepoints)
        BY <2>4, <2>6
      <4> QED
        BY <2>5, <4>1 DEF SavepointsStand
    <3> QED
      BY <2>11, <3>2 DEF Marked, IsPrefixOf
  <2>14. SavepointsStand(s, dialog.held, dialog.connection.savepointCount)
    BY ONLY <1>1, <2>5, <2>7, <2>10, <2>11, <2>12, <2>13, FewerSavepoints
  <2>15. DialogStands(dialog') /\ (dialog').did = did
    BY ONLY <1>1, <2>3, <2>10, <2>11, <2>14, ExecutedStands
  <2> QED
    BY <2>2, <2>15 DEF DialogInv, ToldTrue
<1> QED
  BY <1>3, <1>4

(* A new savepoint: its number is none of those before, so the server puts it   *)
(* behind the others and drops none.                                            *)
LEMMA NewSavepointStands ==
  ASSUME NEW s, ServerShape(s), NEW held \in Seq(HeldMarks), NEW count \in Nat, SavepointsStand(s, held, count),
         NEW name \in SavepointNames, NEW mark, mark = [text |-> SavepointText(name, count), at |-> Len(s.changes)],
         NEW mine, mine = [text |-> SavepointText(name, count), changes |-> s.changes],
         NEW t, ServerShape(t), t.changes = s.changes, t.committed = s.committed, t.savepoints = Append(s.savepoints, mark)
  PROVE  Append(held, mine) \in Seq(HeldMarks) /\ SavepointsStand(t, Append(held, mine), count + 1)
<1>1. s.savepoints \in Seq(Marks) /\ s.changes \in Seq(Nat) /\ Len(s.changes) \in Nat
  BY DEF ServerShape
<1>2. SavepointText(name, count) \in MarkTexts /\ SavepointText(name, count)[2] = count
  BY DEF MarkTexts, SavepointText
<1>3. mark \in Marks /\ mine \in HeldMarks
  BY <1>1, <1>2 DEF Marks, HeldMarks
<1>4. PICK all : all = Append(held, mine)
  OBVIOUS
<1>5. /\ all \in Seq(HeldMarks) /\ Len(all) = Len(held) + 1 /\ all[Len(held) + 1] = mine
      /\ \A i \in 1..Len(held) : all[i] = held[i]
  BY ONLY <1>3, <1>4, held \in Seq(HeldMarks)
<1>6. /\ Len(t.savepoints) = Len(s.savepoints) + 1 /\ t.savepoints[Len(s.savepoints) + 1] = mark
      /\ \A i \in 1..Len(s.savepoints) : t.savepoints[i] = s.savepoints[i]
  BY ONLY <1>1, <1>3, t.savepoints = Append(s.savepoints, mark)
<1>7. PICK h \in Nat : h = Len(held)
  OBVIOUS
<1>8. PICK p \in Nat : p = Len(s.savepoints)
  BY <1>1
<1>9. \A i \in 1..(h + 1) : i \in 1..h \/ i = h + 1
  BY ONLY h \in Nat
<1>10. \A i \in 1..(p + 1) : i \in 1..p \/ i = p + 1
  BY ONLY p \in Nat
<1>11. h + 1 \in 1..(h + 1) /\ 1..h \subseteq 1..(h + 1) /\ p + 1 \in 1..(p + 1) /\ 1..p \subseteq 1..(p + 1)
  BY ONLY h \in Nat, p \in Nat
<1>12. /\ \A i \in 1..h : held[i].text[2] \in Nat /\ held[i].text[2] < count
       /\ \A i, j \in 1..h : held[i].text[2] = held[j].text[2] => i = j
  <2>1. \A i \in 1..h : held[i].text \in MarkTexts
    BY <1>7, HeldAreTyped
  <2> QED
    BY <1>7, <2>1 DEF MarkTexts, SavepointsStand
<1>13. all[h + 1].text[2] = count /\ \A i \in 1..h : all[i] = held[i]
  BY <1>2, <1>5, <1>7
<1>14. \A i \in 1..(h + 1) : all[i].text[2] < count + 1
  <2>1. SUFFICES ASSUME NEW i \in 1..(h + 1) PROVE all[i].text[2] < count + 1
    OBVIOUS
  <2>2. CASE i = h + 1
    BY <1>13, <2>2
  <2>3. CASE i \in 1..h
    <3>1. all[i].text[2] = held[i].text[2]
      BY <1>13, <2>3
    <3>2. PICK number \in Nat : number = held[i].text[2] /\ number < count
      BY <1>12, <2>3
    <3> QED
      BY ONLY <3>1, <3>2, count \in Nat
  <2> QED
    BY <1>9, <2>2, <2>3
<1>15. \A i, j \in 1..(h + 1) : all[i].text[2] = all[j].text[2] => i = j
  <2>1. SUFFICES ASSUME NEW i \in 1..(h + 1), NEW j \in 1..(h + 1), all[i].text[2] = all[j].text[2]
                 PROVE  i = j
    OBVIOUS
  <2>2. CASE i \in 1..h /\ j \in 1..h
    BY <1>12, <1>13, <2>1, <2>2
  <2>3. CASE i = h + 1 /\ j \in 1..h
    <3>1. held[j].text[2] = count
      BY <1>13, <2>1, <2>3
    <3> QED
      BY <1>12, <2>3, <3>1
  <2>4. CASE i \in 1..h /\ j = h + 1
    <3>1. held[i].text[2] = count
      BY <1>13, <2>1, <2>4
    <3> QED
      BY <1>12, <2>4, <3>1
  <2> QED
    BY <1>9, <2>2, <2>3, <2>4
<1>16. \A k \in 1..p : s.savepoints[k].at <= Len(s.changes)
  <2>1. SUFFICES ASSUME NEW k \in 1..p PROVE s.savepoints[k].at <= Len(s.changes)
    OBVIOUS
  <2>2. PICK j \in 1..Len(held) : Marked(s.savepoints[k], held[j], s.changes)
    BY <1>8 DEF SavepointsStand
  <2> QED
    BY <2>2 DEF Marked, IsPrefixOf
<1>17. s.committed <= Len(s.changes) /\ s.committed \in Nat
  BY DEF SavepointsStand, ServerShape
<1>18. ASSUME NEW n \in 1..(p + 1)
       PROVE  (\E i \in 1..(h + 1) : Marked(t.savepoints[n], all[i], t.changes)) /\ t.committed <= t.savepoints[n].at
  <2>1. CASE n \in 1..p
    <3>1. t.savepoints[n] = s.savepoints[n] /\ t.committed = s.committed
      BY <1>6, <1>8, <2>1
    <3>2. PICK j \in 1..h : Marked(s.savepoints[n], held[j], s.changes)
      BY <1>7, <1>8, <2>1 DEF SavepointsStand
    <3>3. s.committed <= s.savepoints[n].at
      BY <1>8, <2>1 DEF SavepointsStand
    <3>4. Marked(t.savepoints[n], all[j], t.changes)
      BY <1>13, <3>1, <3>2
    <3> QED
      BY <1>11, <3>1, <3>3, <3>4
  <2>2. CASE n = p + 1
    <3>1. t.savepoints[n] = mark /\ all[h + 1] = mine
      BY <1>5, <1>6, <1>7, <1>8, <2>2
    <3>2. Marked(mark, mine, s.changes)
      BY <1>1 DEF Marked, IsPrefixOf
    <3>3. Marked(t.savepoints[n], all[h + 1], t.changes)
      BY <3>1, <3>2
    <3>4. t.committed <= t.savepoints[n].at
      <4>1. t.savepoints[n].at = Len(s.changes)
        BY <1>6, <1>8, <2>2
      <4> QED
        BY <1>17, <4>1
    <3> QED
      BY <1>11, <3>3, <3>4
  <2> QED
    BY <1>10, <2>1, <2>2
<1>19. ASSUME NEW n \in 1..(p + 1), NEW m \in 1..(p + 1), n <= m
       PROVE  t.savepoints[n].at <= t.savepoints[m].at
  <2>1. CASE m = p + 1
    <3>1. t.savepoints[m].at = Len(s.changes)
      BY <1>6, <1>8, <2>1
    <3>2. CASE n = p + 1
      <4>1. PICK at \in Nat : at = Len(s.changes)
        BY <1>1
      <4> QED
        BY ONLY <2>1, <3>1, <3>2, <4>1
    <3>3. CASE n \in 1..p
      BY <1>6, <1>8, <1>16, <3>1, <3>3
    <3> QED
      BY <1>10, <3>2, <3>3
  <2>2. CASE m \in 1..p
    <3>1. n \in 1..p
      BY <1>19, <2>2
    <3>2. t.savepoints[n] = s.savepoints[n] /\ t.savepoints[m] = s.savepoints[m]
      BY <1>6, <1>8, <2>2, <3>1
    <3> QED
      BY <1>8, <1>19, <2>2, <3>1, <3>2 DEF SavepointsStand
  <2> QED
    BY <1>10, <2>1, <2>2
<1>20. Len(all) = h + 1 /\ Len(t.savepoints) = p + 1 /\ t.committed <= Len(t.changes)
  BY <1>5, <1>6, <1>7, <1>8, <1>17
<1>21. SavepointsStand(t, all, count + 1)
  BY ONLY <1>14, <1>15, <1>18, <1>19, <1>20 DEF SavepointsStand
<1> QED
  BY <1>4, <1>5, <1>21

LEMMA SetSavepointStep ==
  ASSUME DialogInv(dialog), NEW name \in SavepointNames, SetSavepoint(name)
  PROVE  DialogInv(dialog')
<1>1. DialogStands(dialog) /\ DialogShape(dialog) /\ ServerShape(dialog.server) /\ dialog.held \in Seq(HeldMarks)
  BY DEF DialogInv, DialogStands, DialogShape
<1>2. PICK count \in Nat : count = dialog.connection.savepointCount
  BY <1>1 DEF DialogShape, ConnectionShape
<1>3. CASE ~CanExecute
  <2>1. PICK made : made = Throwing("savepoint")
    OBVIOUS
  <2>2. "savepoint" # "info" /\ "savepoint" # "warnings"
    OBVIOUS
  <2>3. DialogInv(made)
    BY ONLY <1>1, <2>1, <2>2, ThrowingStands
  <2>4. PICK next : next = NextSavepoint(made.connection.savepointCount)
    OBVIOUS
  <2>5. dialog' = [made EXCEPT !.connection.savepointCount = next]
    BY <1>3, <2>1, <2>4 DEF SetSavepoint
  <2> QED
    BY ONLY <2>3, <2>4, <2>5, CountUpStands
<1>4. CASE CanExecute
  <2>1. PICK mark, mine, p, s :
           /\ mark = [text |-> SavepointText(name, count), at |-> Len(dialog.server.changes)]
           /\ mine = [text |-> SavepointText(name, count), changes |-> dialog.server.changes]
           /\ p = WithSavepoint(dialog.server.savepoints, SavepointText(name, count), Len(dialog.server.changes))
           /\ s = [dialog.server EXCEPT !.savepoints = p]
    OBVIOUS
  <2>2. PICK did, warned : did = [what |-> "savepoint", ok |-> TRUE] /\ warned = FALSE
    OBVIOUS
  <2>3. PICK done : done = Executed(s, warned, did)
    OBVIOUS
  <2>4. PICK made : made = [done EXCEPT !.held = Append(done.held, mine)]
    OBVIOUS
  <2>5. PICK next : next = NextSavepoint(made.connection.savepointCount)
    OBVIOUS
  <2>6. dialog' = [made EXCEPT !.connection.savepointCount = next]
    BY <1>2, <1>4, <2>1, <2>2, <2>3, <2>4, <2>5 DEF SetSavepoint
  <2>7. SavepointsStand(dialog.server, dialog.held, count)
    BY <1>1, <1>2 DEF DialogStands
  <2>8. p = Append(dialog.server.savepoints, mark)
    <3>1. \A n \in 1..Len(dialog.server.savepoints) : dialog.server.savepoints[n].text # SavepointText(name, count)
      <4>1. SUFFICES ASSUME NEW n \in 1..Len(dialog.server.savepoints),
                            dialog.server.savepoints[n].text = SavepointText(name, count)
                     PROVE  FALSE
        OBVIOUS
      <4>2. PICK i \in 1..Len(dialog.held) : Marked(dialog.server.savepoints[n], dialog.held[i], dialog.server.changes)
        BY <2>7 DEF SavepointsStand
      <4>3. dialog.held[i].text[2] < count
        BY <2>7 DEF SavepointsStand
      <4>4. dialog.held[i].text[2] = count
        BY <4>1, <4>2 DEF Marked, SavepointText
      <4> QED
        BY <4>3, <4>4
    <3> QED
      BY <2>1, <3>1 DEF WithSavepoint, RemoveFirstMatch
  <2>9. dialog.server.savepoints \in Seq(Marks) /\ Len(dialog.server.changes) \in Nat
    BY <1>1 DEF ServerShape
  <2>10. p \in Seq(Marks)
    <3>1. mark \in Marks
      BY <2>1, <2>9 DEF Marks, MarkTexts, SavepointText
    <3> QED
      BY ONLY <2>8, <2>9, <3>1
  <2>11. s = [changes |-> dialog.server.changes, committed |-> dialog.server.committed, savepoints |-> p,
              info |-> dialog.server.info, noBackslashEscapes |-> dialog.server.noBackslashEscapes, warnings |-> dialog.server.warnings]
    BY <1>1, <2>1 DEF ServerShape
  <2>12. ServerShape(s) /\ s.info = dialog.server.info
    BY <1>1, <2>10, <2>11 DEF ServerShape
  <2>13. warned \in BOOLEAN
    BY <2>2
  <2>14. /\ DialogShape(done) /\ SameCaller(done, dialog) /\ SameData(done.server, s)
         /\ done.connection.savepointCount = dialog.connection.savepointCount
         /\ (done.server.warnings > 0 => done.server.warnings = done.executed)
         /\ done.executed = dialog.calls + 1 /\ done.did = did
    BY ONLY <1>1, <2>3, <2>12, <2>13, ExecutedStep
  <2>15. /\ ServerShape(done.server) /\ done.server.changes = dialog.server.changes
         /\ done.server.committed = dialog.server.committed /\ done.server.savepoints = Append(dialog.server.savepoints, mark)
         /\ done.server.info = dialog.server.info
    BY <2>8, <2>11, <2>14 DEF SameData, DialogShape
  <2>16. PICK all : all = Append(dialog.held, mine)
    OBVIOUS
  <2>17. all \in Seq(HeldMarks) /\ SavepointsStand(done.server, all, count + 1)
    BY ONLY <1>1, <1>2, <2>1, <2>7, <2>15, <2>16, name \in SavepointNames, NewSavepointStands
  <2>18. PICK c : c = [savepointCount |-> next, warningsCleared |-> done.connection.warningsCleared,
                       lowercaseTableNames |-> done.connection.lowercaseTableNames]
    OBVIOUS
  <2>19. dialog' = [server |-> done.server, held |-> all, told |-> done.told, calls |-> done.calls, cleared |-> done.cleared,
                    executed |-> done.executed, atRisk |-> done.atRisk, did |-> done.did, protocol |-> done.protocol, connection |-> c]
    BY <2>4, <2>6, <2>14, <2>16, <2>18 DEF DialogShape, ConnectionShape, SameCaller
  <2>20. next = count + 1 /\ next \in Nat
    BY <1>2, <2>4, <2>5, <2>14 DEF NextSavepoint, DialogShape
  <2>21. ConnectionShape(c) /\ c.savepointCount = count + 1
    BY <2>18, <2>20 DEF ConnectionShape
  <2>22. DialogShape(dialog')
    BY <2>14, <2>17, <2>19, <2>21 DEF DialogShape
  <2>23. SavepointsStand((dialog').server, (dialog').held, (dialog').connection.savepointCount)
    BY <2>17, <2>19, <2>21
  <2>24. InfoStands((dialog').server.info, (dialog').told, (dialog').atRisk)
    BY <1>1, <2>14, <2>15, <2>19 DEF DialogStands, SameCaller
  <2>25. dialog.calls \in Nat /\ dialog.cleared \in 0..dialog.calls
    BY <1>1 DEF DialogShape
  <2>26. WarningsStand(dialog')
    BY <2>14, <2>19, <2>25 DEF WarningsStand, SameCaller
  <2>27. ToldTrue(dialog')
    BY <2>2, <2>14, <2>19 DEF ToldTrue
  <2> QED
    BY <2>22, <2>23, <2>24, <2>26, <2>27 DEF DialogStands, DialogInv
<1> QED
  BY <1>3, <1>4

-----------------------------------------------------------------------------
(* Warnings, the cached setting, and the ends of a session.                     *)
LEMMA SameSessionStep ==
  ASSUME DialogInv(dialog), NEW did, NEW warned \in BOOLEAN, NEW r, r = Executed(dialog.server, warned, did)
  PROVE  DialogStands(r) /\ r.did = did /\ SameCaller(r, dialog)
<1>1. DialogStands(dialog) /\ ServerShape(dialog.server)
  BY DEF DialogInv, DialogStands, DialogShape
<1>2. SavepointsStand(dialog.server, dialog.held, dialog.connection.savepointCount)
  BY <1>1 DEF DialogStands
<1>3. PICK session : session = dialog.server
  OBVIOUS
<1> QED
  BY ONLY <1>1, <1>2, <1>3, warned \in BOOLEAN, r = Executed(dialog.server, warned, did), ExecutedStands

LEMMA GetClientInfoStep ==
  ASSUME DialogInv(dialog), NEW name, GetClientInfo(name)
  PROVE  DialogInv(dialog')
<1>1. DialogStands(dialog)
  BY DEF DialogInv
<1>2. CASE ~CanExecute \/ name \notin InfoNames
  <2>1. dialog' = Throwing("read")
    BY <1>2 DEF GetClientInfo
  <2>2. "read" # "info" /\ "read" # "warnings"
    OBVIOUS
  <2> QED
    BY ONLY <1>1, <2>1, <2>2, ThrowingStands
<1>3. CASE CanExecute /\ name \in InfoNames
  <2>1. PICK did : did = [what |-> "read", ok |-> TRUE, name |-> name, value |-> ValueOf(dialog.server.info[name])]
    OBVIOUS
  <2>2. PICK warned \in BOOLEAN : dialog' = Executed(dialog.server, warned, did)
    BY <1>3, <2>1 DEF GetClientInfo
  <2>3. DialogStands(dialog') /\ (dialog').did = did /\ SameCaller(dialog', dialog)
    BY <2>2, SameSessionStep
  <2>4. name \notin dialog.atRisk => ValueOf(dialog.server.info[name]) = ValueOf(dialog.told[name])
    BY <1>1, <1>3 DEF DialogStands, InfoStands
  <2>5. ToldTrue(dialog')
    BY <2>1, <2>3, <2>4 DEF ToldTrue, SameCaller
  <2> QED
    BY <2>3, <2>5 DEF DialogInv
<1> QED
  BY <1>2, <1>3

LEMMA GetWarningsStep ==
  ASSUME DialogInv(dialog), GetWarnings
  PROVE  DialogInv(dialog')
<1>1. DialogStands(dialog) /\ DialogShape(dialog) /\ ServerShape(dialog.server)
  BY DEF DialogInv, DialogStands, DialogShape
<1>2. CASE ~(CanExecute /\ WarningsToRead)
  <2>1. PICK did : did = [what |-> "warnings", of |-> 0]
    OBVIOUS
  <2>2. dialog' = Called(dialog, did)
    BY <1>2, <2>1 DEF GetWarnings
  <2>3. DialogStands(dialog') /\ (dialog').did = did
    BY ONLY <1>1, <2>2, CalledStands
  <2> QED
    BY <2>1, <2>3 DEF DialogInv, ToldTrue
<1>3. CASE CanExecute /\ WarningsToRead
  <2>1. PICK did : did = [what |-> "warnings", of |-> dialog.server.warnings]
    OBVIOUS
  <2>2. PICK flag \in BOOLEAN :
          dialog' = Called([dialog EXCEPT !.protocol.hasWarnings = flag, !.connection.warningsCleared = FALSE], did)
    BY <1>3, <2>1 DEF GetWarnings
  <2>3. PICK p : p = [connected |-> dialog.protocol.connected, explicitClosed |-> dialog.protocol.explicitClosed,
                      noBackslashEscapes |-> dialog.protocol.noBackslashEscapes, hasWarnings |-> flag]
    OBVIOUS
  <2>4. PICK c : c = [savepointCount |-> dialog.connection.savepointCount, warningsCleared |-> FALSE,
                      lowercaseTableNames |-> dialog.connection.lowercaseTableNames]
    OBVIOUS
  <2>5. dialog' = [server |-> dialog.server, held |-> dialog.held, told |-> dialog.told, calls |-> dialog.calls + 1,
                   cleared |-> dialog.cleared, executed |-> dialog.executed, atRisk |-> dialog.atRisk,
                   did |-> did, protocol |-> p, connection |-> c]
    BY <1>1, <2>2, <2>3, <2>4 DEF Called, DialogShape, ProtocolShape, ConnectionShape
  <2>6. dialog.calls + 1 \in Nat /\ dialog.cleared \in 0..(dialog.calls + 1) /\ dialog.executed \in 0..(dialog.calls + 1)
    BY <1>1 DEF DialogShape
  <2>7. ProtocolShape(p)
    BY <1>1, <2>3 DEF DialogShape, ProtocolShape
  <2>8. ConnectionShape(c) /\ c.savepointCount = dialog.connection.savepointCount
    BY <1>1, <2>4 DEF DialogShape, ConnectionShape
  <2>9. DialogShape(dialog')
    BY <1>1, <2>5, <2>6, <2>7, <2>8 DEF DialogShape
  <2>10. dialog.server.warnings > 0 => dialog.server.warnings = dialog.executed /\ dialog.server.warnings > dialog.cleared
    BY <1>1, <1>3 DEF DialogStands, WarningsStand, WarningsToRead
  <2>11. WarningsStand(dialog') /\ ToldTrue(dialog')
    BY <2>1, <2>5, <2>10 DEF WarningsStand, ToldTrue
  <2>12. SavepointsStand((dialog').server, (dialog').held, (dialog').connection.savepointCount)
    BY <1>1, <2>5, <2>8 DEF DialogStands
  <2>13. InfoStands((dialog').server.info, (dialog').told, (dialog').atRisk)
    BY <1>1, <2>5 DEF DialogStands
  <2> QED
    BY <2>9, <2>11, <2>12, <2>13 DEF DialogStands, DialogInv
<1> QED
  BY <1>2, <1>3

LEMMA ClearWarningsStep ==
  ASSUME DialogInv(dialog), ClearWarnings
  PROVE  DialogInv(dialog')
<1>1. DialogStands(dialog) /\ DialogShape(dialog)
  BY DEF DialogInv, DialogStands
<1>2. PICK d : d = Called(dialog, Nothing)
  OBVIOUS
<1>3. dialog' = [d EXCEPT !.connection.warningsCleared = TRUE, !.cleared = dialog.calls + 1]
  BY <1>2 DEF ClearWarnings
<1>4. /\ DialogStands(d) /\ d.server = dialog.server /\ d.connection = dialog.connection /\ d.executed = dialog.executed
      /\ d.calls = dialog.calls + 1 /\ d.did = Nothing
  BY ONLY <1>1, <1>2, CalledStands
<1>5. DialogShape(d)
  BY <1>4 DEF DialogStands
<1>6. PICK c : c = [savepointCount |-> d.connection.savepointCount, warningsCleared |-> TRUE,
                    lowercaseTableNames |-> d.connection.lowercaseTableNames]
  OBVIOUS
<1>7. dialog' = [server |-> d.server, held |-> d.held, told |-> d.told, calls |-> d.calls, cleared |-> d.calls,
                 executed |-> d.executed, atRisk |-> d.atRisk, did |-> d.did, protocol |-> d.protocol, connection |-> c]
  BY <1>3, <1>4, <1>5, <1>6 DEF DialogShape, ConnectionShape
<1>8. ConnectionShape(c) /\ c.savepointCount = d.connection.savepointCount /\ c.warningsCleared
  BY <1>5, <1>6 DEF DialogShape, ConnectionShape
<1>9. d.calls \in Nat /\ d.calls \in 0..d.calls
  BY <1>5 DEF DialogShape
<1>10. DialogShape(dialog')
  BY <1>5, <1>7, <1>8, <1>9 DEF DialogShape
<1>11. WarningsStand(dialog')
  BY <1>4, <1>7, <1>8 DEF DialogStands, WarningsStand
<1>12. SavepointsStand((dialog').server, (dialog').held, (dialog').connection.savepointCount)
       /\ InfoStands((dialog').server.info, (dialog').told, (dialog').atRisk)
  BY <1>4, <1>7, <1>8 DEF DialogStands
<1>13. (dialog').did.what = "nothing"
  BY <1>4, <1>7 DEF Nothing
<1> QED
  BY <1>10, <1>11, <1>12, <1>13, NothingToldIsTrue DEF DialogStands, DialogInv

LEMMA CachedNamesStand ==
  ASSUME NEW d, DialogInv(d), NEW r, r = [d EXCEPT !.connection.lowercaseTableNames = 0]
  PROVE  DialogInv(r)
<1>1. DialogShape(d)
  BY DEF DialogInv, DialogStands
<1>2. PICK c : c = [savepointCount |-> d.connection.savepointCount, warningsCleared |-> d.connection.warningsCleared,
                    lowercaseTableNames |-> 0]
  OBVIOUS
<1>3. r = [server |-> d.server, held |-> d.held, told |-> d.told, calls |-> d.calls, cleared |-> d.cleared,
           executed |-> d.executed, atRisk |-> d.atRisk, did |-> d.did, protocol |-> d.protocol, connection |-> c]
  BY <1>1, <1>2 DEF DialogShape, ConnectionShape
<1>4. ConnectionShape(c) /\ c.savepointCount = d.connection.savepointCount /\ c.warningsCleared = d.connection.warningsCleared
  BY <1>1, <1>2 DEF DialogShape, ConnectionShape
<1>5. DialogShape(r)
  BY <1>1, <1>3, <1>4 DEF DialogShape
<1>6. WarningsStand(r)
  BY <1>3, <1>4 DEF DialogInv, DialogStands, WarningsStand
<1>7. SavepointsStand(r.server, r.held, r.connection.savepointCount) /\ InfoStands(r.server.info, r.told, r.atRisk)
  BY <1>3, <1>4 DEF DialogInv, DialogStands
<1>8. ToldTrue(r)
  BY <1>3 DEF DialogInv, ToldTrue
<1> QED
  BY <1>5, <1>6, <1>7, <1>8 DEF DialogStands, DialogInv

LEMMA GetLowercaseTableNamesStep ==
  ASSUME DialogInv(dialog), GetLowercaseTableNames
  PROVE  DialogInv(dialog')
<1>1. DialogStands(dialog)
  BY DEF DialogInv
<1>2. CASE dialog.connection.lowercaseTableNames # -1
  <2>1. dialog' = Called(dialog, Nothing)
    BY <1>2 DEF GetLowercaseTableNames
  <2>2. DialogStands(dialog') /\ (dialog').did = Nothing
    BY ONLY <1>1, <2>1, CalledStands
  <2> QED
    BY <2>2, NothingToldIsTrue DEF DialogInv, Nothing
<1>3. CASE dialog.connection.lowercaseTableNames = -1 /\ CanExecute
  <2>1. PICK warned \in BOOLEAN : \E d : d = Executed(dialog.server, warned, Nothing)
                                         /\ dialog' = [d EXCEPT !.connection.lowercaseTableNames = 0]
    BY <1>3 DEF GetLowercaseTableNames
  <2>4. PICK d : d = Executed(dialog.server, warned, Nothing) /\ dialog' = [d EXCEPT !.connection.lowercaseTableNames = 0]
    BY <2>1
  <2>2. DialogStands(d) /\ d.did = Nothing
    BY <2>4, SameSessionStep
  <2>3. DialogInv(d)
    BY <2>2, NothingToldIsTrue DEF DialogInv, Nothing
  <2> QED
    BY ONLY <2>3, <2>4, CachedNamesStand
<1>4. CASE dialog.connection.lowercaseTableNames = -1 /\ ~CanExecute
  <2>1. dialog' = Throwing("lowercase")
    BY <1>4 DEF GetLowercaseTableNames
  <2>2. "lowercase" # "info" /\ "lowercase" # "warnings"
    OBVIOUS
  <2> QED
    BY ONLY <1>1, <2>1, <2>2, ThrowingStands
<1> QED
  BY <1>2, <1>3, <1>4

LEMMA CloseStep ==
  ASSUME DialogInv(dialog), Close
  PROVE  DialogInv(dialog')
<1>1. DialogStands(dialog)
  BY DEF DialogInv
<1>2. PICK d : d = Called(dialog, Nothing)
  OBVIOUS
<1>3. dialog' = [d EXCEPT !.protocol.explicitClosed = TRUE, !.protocol.connected = FALSE]
  BY <1>2 DEF Close
<1>4. DialogStands(d) /\ d.did = Nothing
  BY ONLY <1>1, <1>2, CalledStands
<1>5. DialogShape(d)
  BY <1>4 DEF DialogStands
<1>6. PICK p : p = [connected |-> FALSE, explicitClosed |-> TRUE,
                    noBackslashEscapes |-> d.protocol.noBackslashEscapes, hasWarnings |-> d.protocol.hasWarnings]
  OBVIOUS
<1>7. dialog' = [server |-> d.server, held |-> d.held, told |-> d.told, calls |-> d.calls, cleared |-> d.cleared,
                 executed |-> d.executed, atRisk |-> d.atRisk, did |-> d.did, protocol |-> p, connection |-> d.connection]
  BY <1>3, <1>5, <1>6 DEF DialogShape, ProtocolShape
<1>8. ProtocolShape(p) /\ p.hasWarnings = d.protocol.hasWarnings
  BY <1>5, <1>6 DEF DialogShape, ProtocolShape
<1>9. DialogShape(dialog')
  BY <1>5, <1>7, <1>8 DEF DialogShape
<1>10. WarningsStand(dialog')
  BY <1>4, <1>7, <1>8 DEF DialogStands, WarningsStand
<1>11. SavepointsStand((dialog').server, (dialog').held, (dialog').connection.savepointCount)
       /\ InfoStands((dialog').server.info, (dialog').told, (dialog').atRisk)
  BY <1>4, <1>7 DEF DialogStands
<1>12. (dialog').did.what = "nothing"
  BY <1>4, <1>7 DEF Nothing
<1> QED
  BY <1>9, <1>10, <1>11, <1>12, NothingToldIsTrue DEF DialogStands, DialogInv

(* The session that the server begins anew has no savepoints and no client info. *)
LEMMA ConnectionLostStep ==
  ASSUME DialogInv(dialog), ConnectionLost
  PROVE  DialogInv(dialog')
<1>1. DialogStands(dialog) /\ DialogShape(dialog) /\ ServerShape(dialog.server) /\ dialog.held \in Seq(HeldMarks)
  BY DEF DialogInv, DialogStands, DialogShape
<1>2. PICK c, s : c = SubSeq(dialog.server.changes, 1, dialog.server.committed) /\ s = NewSession(c, FALSE)
  OBVIOUS
<1>3. PICK p : p = [connected |-> FALSE, explicitClosed |-> dialog.protocol.explicitClosed,
                    noBackslashEscapes |-> dialog.protocol.noBackslashEscapes, hasWarnings |-> dialog.protocol.hasWarnings]
  OBVIOUS
<1>4. dialog' = [server |-> s, held |-> dialog.held, told |-> NoInfo, calls |-> dialog.calls, cleared |-> dialog.cleared,
                 executed |-> dialog.executed, atRisk |-> {}, did |-> Nothing, protocol |-> p, connection |-> dialog.connection]
  BY <1>1, <1>2, <1>3 DEF ConnectionLost, DialogShape, ProtocolShape
<1>5. dialog.server.changes \in Seq(Nat) /\ dialog.server.committed \in Nat /\ dialog.server.committed <= Len(dialog.server.changes)
  BY <1>1 DEF ServerShape, DialogStands, SavepointsStand
<1>6. c \in Seq(Nat)
  BY ONLY <1>2, <1>5
<1>7. s = [changes |-> c, committed |-> Len(c), savepoints |-> <<>>, info |-> NoInfo, noBackslashEscapes |-> FALSE, warnings |-> 0]
  BY <1>2 DEF NewSession
<1>8. NoInfo = [n \in InfoNames |-> NoInfo[n]] /\ Len(c) \in Nat
  BY <1>6 DEF NoInfo
<1>9. ServerShape(s)
  BY <1>6, <1>7, <1>8 DEF ServerShape
<1>10. ProtocolShape(p)
  BY <1>1, <1>3 DEF DialogShape, ProtocolShape
<1>11. DialogShape(dialog')
  BY <1>1, <1>4, <1>8, <1>9, <1>10 DEF DialogShape
<1>12. s.committed <= Len(s.changes) /\ Len(s.savepoints) = 0
  BY <1>7, <1>8
<1>13. SavepointsStand(s, dialog.held, dialog.connection.savepointCount)
  BY <1>1, <1>12 DEF DialogStands, SavepointsStand
<1>14. InfoStands(s.info, NoInfo, {})
  BY <1>7 DEF InfoStands
<1>15. WarningsStand(dialog')
  BY <1>4, <1>7 DEF WarningsStand
<1>16. (dialog').did.what = "nothing"
  BY <1>4 DEF Nothing
<1> QED
  BY <1>4, <1>11, <1>13, <1>14, <1>15, <1>16, NothingToldIsTrue DEF DialogStands, DialogInv

LEMMA CallsBegin ==
  ASSUME CallsInit
  PROVE  DialogInv(dialog)
<1>1. PICK mode \in Modes :
        dialog = [server |-> NewSession(<<>>, mode), held |-> <<>>, told |-> NoInfo, calls |-> 0, cleared |-> 0, executed |-> 0,
                  atRisk |-> {}, did |-> Nothing,
                  protocol |-> [connected |-> TRUE, explicitClosed |-> FALSE, noBackslashEscapes |-> mode, hasWarnings |-> FALSE],
                  connection |-> [savepointCount |-> 0, warningsCleared |-> TRUE, lowercaseTableNames |-> -1]]
  BY DEF CallsInit
<1>2. PICK flag \in BOOLEAN : flag = mode
  BY CallsAssumption
<1>3. PICK s, p, c : /\ s = NewSession(<<>>, mode)
                     /\ p = [connected |-> TRUE, explicitClosed |-> FALSE, noBackslashEscapes |-> mode, hasWarnings |-> FALSE]
                     /\ c = [savepointCount |-> 0, warningsCleared |-> TRUE, lowercaseTableNames |-> -1]
  OBVIOUS
<1>4. dialog = [server |-> s, held |-> <<>>, told |-> NoInfo, calls |-> 0, cleared |-> 0, executed |-> 0,
                atRisk |-> {}, did |-> Nothing, protocol |-> p, connection |-> c]
  BY <1>1, <1>3
<1>5. s = [changes |-> <<>>, committed |-> 0, savepoints |-> <<>>, info |-> NoInfo, noBackslashEscapes |-> flag, warnings |-> 0]
  BY <1>2, <1>3 DEF NewSession
<1>6. NoInfo = [n \in InfoNames |-> NoInfo[n]]
  BY DEF NoInfo
<1>7. ServerShape(s)
  BY <1>5, <1>6 DEF ServerShape
<1>8. ProtocolShape(p)
  BY <1>2, <1>3 DEF ProtocolShape
<1>9. ConnectionShape(c)
  BY <1>3 DEF ConnectionShape
<1>10. DialogShape(dialog)
  BY <1>4, <1>6, <1>7, <1>8, <1>9 DEF DialogShape
<1>11. Len(s.savepoints) = 0 /\ s.committed <= Len(s.changes) /\ Len(dialog.held) = 0
  BY <1>4, <1>5
<1>12. SavepointsStand(s, dialog.held, c.savepointCount)
  BY <1>11 DEF SavepointsStand
<1>13. InfoStands(s.info, NoInfo, {})
  BY <1>5 DEF InfoStands
<1>14. WarningsStand(dialog)
  BY <1>4, <1>5 DEF WarningsStand
<1>15. dialog.did.what = "nothing"
  BY <1>4 DEF Nothing
<1> QED
  BY <1>4, <1>10, <1>12, <1>13, <1>14, <1>15, NothingToldIsTrue DEF DialogStands, DialogInv

-----------------------------------------------------------------------------
(* Client info.                                                                 *)
LEMMA InfoValuesAreTexts ==
  ASSUME NEW value \in InfoValues \cup {<<>>}
  PROVE  value \in Seq(Letters)
<1>1. CASE value = <<>>
  BY <1>1
<1>2. CASE value \in InfoValues
  <2>1. PICK n \in Nat : n = Len(value) /\ value = [i \in 1..n |-> value[i]]
    BY <1>2, CallsAssumption
  <2>2. \A i \in 1..n : value[i] \in Letters
    BY <1>2, <2>1 DEF Letters
  <2>3. value \in [1..n -> Letters]
    BY ONLY <2>1, <2>2
  <2> QED
    BY ONLY <2>3, n \in Nat
<1> QED
  BY <1>1, <1>2

LEMMA ReadingIsRight ==
  ASSUME NEW out, NEW read, read = [out |-> out, last |-> "", bad |-> FALSE]
  PROVE  ~read.bad /\ read.last = "" /\ read.out = out
OBVIOUS

(* What is written in the mode of the session is read as the value it stands    *)
(* for, as the caller sees it: NULL and the empty text are the same.            *)
LEMMA InfoIsRight ==
  ASSUME NEW value \in InfoValues \cup {<<>>}, NEW mode \in BOOLEAN,
         NEW read, read = ServerReads(BuildClientQuery(value, mode), mode)
  PROVE  ~read.bad /\ read.last = "" /\ ValueOf(read.out) = ValueOf(value)
<1>1. PICK text : text = BuildClientQuery(value, mode)
  OBVIOUS
<1>2. value \in Seq(Letters) /\ {"'", "\\"} \subseteq Letters
  BY InfoValuesAreTexts DEF Letters
<1>3. NullInfo # <<>>
  BY DEF NullInfo
<1>4. CASE value = <<>>
  <2>1. text = NullInfo
    BY <1>1, <1>4 DEF BuildClientQuery
  <2>2. read = [out |-> NullInfo, last |-> "", bad |-> FALSE]
    BY <1>1, <2>1 DEF ServerReads, NothingRead
  <2>3. ValueOf(NullInfo) = <<>> /\ ValueOf(<<>>) = <<>>
    BY <1>3 DEF ValueOf
  <2> QED
    BY <1>4, <2>2, <2>3, ReadingIsRight
<1>5. CASE value # <<>>
  <2>1. text = Escaped(value, mode)[Len(value)]
    BY <1>1, <1>5 DEF BuildClientQuery
  <2>2. TextRead(text, mode)[Len(text)] = [out |-> value, last |-> "", bad |-> FALSE]
    BY ONLY <1>2, <1>5, <2>1, mode \in BOOLEAN, InfoIsReadBack
  <2>3. CASE text # NullInfo
    <3>1. read = [out |-> value, last |-> "", bad |-> FALSE]
      BY <1>1, <2>2, <2>3 DEF ServerReads
    <3> QED
      BY <3>1, ReadingIsRight
  <2>4. CASE text = NullInfo
    <3>1. PICK C : C = Letters \cup {"NULL"}
      OBVIOUS
    <3>2. text \in Seq(C) /\ Len(text) = 1 /\ text[1] = "NULL"
      BY <2>4, <3>1 DEF NullInfo
    <3>3. TextRead(text, mode)[1] = ReadChar(NothingRead, "NULL", mode)
      BY <3>2, TextReadIsDefined
    <3>4. ReadChar(NothingRead, "NULL", mode) = [NothingRead EXCEPT !.out = Append(NothingRead.out, "NULL")]
      <4>1. NothingRead.last = "" /\ "NULL" # "'" /\ "NULL" # "\\"
        BY DEF NothingRead
      <4> QED
        BY <4>1 DEF ReadChar
    <3>5. value = NullInfo
      <4>1. ReadChar(NothingRead, "NULL", mode).out = Append(<<>>, "NULL")
        BY <3>4 DEF NothingRead
      <4>2. TextRead(text, mode)[1].out = value
        BY <2>2, <3>2, ReadingIsRight
      <4>3. Append(<<>>, "NULL") = <<"NULL">>
        OBVIOUS
      <4> QED
        BY ONLY <3>3, <4>1, <4>2, <4>3 DEF NullInfo
    <3>6. read = [out |-> NullInfo, last |-> "", bad |-> FALSE]
      BY <1>1, <2>4 DEF ServerReads, NothingRead
    <3> QED
      BY <3>5, <3>6, ReadingIsRight
  <2> QED
    BY <2>3, <2>4
<1> QED
  BY <1>4, <1>5

(* One info of a call: alone at risk while the protocol does not know the mode. *)
LEMMA SetInfoStands ==
  ASSUME NEW d, DialogInv(d), d.server.warnings = 0, NEW name \in InfoNames, NEW value \in InfoValues \cup {<<>>},
         d.did.what = "nothing" \/ (d.did.what = "info" /\ (d.did.name = name => d.did.ok)),
         NEW r, r = SetInfo(d, name, value)
  PROVE  /\ DialogInv(r) /\ r.server.warnings = 0
         /\ r.did = d.did \/ (r.did.what = "info" /\ r.did.name = name)
<1>1. DialogStands(d) /\ DialogShape(d) /\ ServerShape(d.server) /\ ProtocolShape(d.protocol)
  BY DEF DialogInv, DialogStands, DialogShape
<1>2. PICK read : read = ServerReads(BuildClientQuery(value, d.protocol.noBackslashEscapes), d.server.noBackslashEscapes)
  OBVIOUS
<1>3. PICK risk : risk = AtRisk(d, name)
  OBVIOUS
<1>4. d.calls \in Nat /\ d.calls \in 0..d.calls
  BY <1>1 DEF DialogShape
<1>5. \A n \in InfoNames : n # name => (n \in risk <=> n \in d.atRisk)
  BY <1>3 DEF AtRisk
<1>6. name \notin risk => ~read.bad /\ read.last = "" /\ ValueOf(read.out) = ValueOf(value)
  <2>1. SUFFICES ASSUME name \notin risk PROVE ~read.bad /\ read.last = "" /\ ValueOf(read.out) = ValueOf(value)
    OBVIOUS
  <2>2. d.protocol.noBackslashEscapes = d.server.noBackslashEscapes /\ d.server.noBackslashEscapes \in BOOLEAN
    BY <1>1, <1>3, <2>1 DEF ServerShape, AtRisk
  <2>3. PICK mode \in BOOLEAN : mode = d.server.noBackslashEscapes
    BY <2>2
  <2>4. read = ServerReads(BuildClientQuery(value, mode), mode)
    BY <1>2, <2>2, <2>3
  <2> QED
    BY <2>4, InfoIsRight
<1>7. PICK known : known = [server |-> d.server, held |-> d.held, told |-> d.told, calls |-> d.calls, cleared |-> d.cleared,
             executed |-> d.calls, atRisk |-> risk, did |-> d.did, protocol |-> d.protocol, connection |-> d.connection]
  OBVIOUS
<1>8. [d EXCEPT !.atRisk = AtRisk(d, name), !.executed = d.calls] = known
  <2>1. d = [server |-> d.server, held |-> d.held, told |-> d.told, calls |-> d.calls, cleared |-> d.cleared,
             executed |-> d.executed, atRisk |-> d.atRisk, did |-> d.did, protocol |-> d.protocol, connection |-> d.connection]
    BY <1>1 DEF DialogShape
  <2>2. PICK k : k = [d EXCEPT !.atRisk = risk, !.executed = d.calls]
    OBVIOUS
  <2>3. k = [server |-> d.server, held |-> d.held, told |-> d.told, calls |-> d.calls, cleared |-> d.cleared,
             executed |-> d.calls, atRisk |-> risk, did |-> d.did, protocol |-> d.protocol, connection |-> d.connection]
    BY ONLY <2>1, <2>2
  <2> QED
    BY ONLY <1>3, <1>7, <2>2, <2>3
<1>9. r = IF read.bad \/ read.last # "" THEN [known EXCEPT !.did = [what |-> "info", ok |-> FALSE, name |-> name]]
           ELSE [known EXCEPT !.server.info[name] = read.out, !.told[name] = value,
                              !.protocol.noBackslashEscapes = d.server.noBackslashEscapes]
  BY <1>2, <1>8 DEF SetInfo
<1>10. CASE read.bad \/ read.last # ""
  <2>1. PICK did : did = [what |-> "info", ok |-> FALSE, name |-> name]
    OBVIOUS
  <2>2. r = [server |-> d.server, held |-> d.held, told |-> d.told, calls |-> d.calls, cleared |-> d.cleared,
             executed |-> d.calls, atRisk |-> risk, did |-> did, protocol |-> d.protocol, connection |-> d.connection]
    BY <1>10, <1>7, <1>9, <2>1
  <2>3. DialogShape(r)
    BY <1>1, <1>4, <2>2 DEF DialogShape
  <2>4. name \in risk
    BY <1>6, <1>10
  <2>5. InfoStands(r.server.info, r.told, r.atRisk)
    BY <1>1, <1>5, <2>2, <2>4 DEF DialogStands, InfoStands
  <2>6. SavepointsStand(r.server, r.held, r.connection.savepointCount) /\ r.server.warnings = 0
    BY <1>1, <2>2 DEF DialogStands
  <2>7. WarningsStand(r)
    BY <2>6 DEF WarningsStand
  <2>8. ToldTrue(r) /\ r.did.what = "info" /\ r.did.name = name
    BY <2>1, <2>2, <2>4 DEF ToldTrue
  <2> QED
    BY <2>3, <2>5, <2>6, <2>7, <2>8 DEF DialogStands, DialogInv
<1>11. CASE ~(read.bad \/ read.last # "")
  <2>1. PICK info, given : /\ info = [n \in InfoNames |-> IF n = name THEN read.out ELSE d.server.info[n]]
                           /\ given = [n \in InfoNames |-> IF n = name THEN value ELSE d.told[n]]
    OBVIOUS
  <2>2. [d.server.info EXCEPT ![name] = read.out] = info
    BY <1>1, <2>1 DEF ServerShape
  <2>3. [d.told EXCEPT ![name] = value] = given
    BY <1>1, <2>1 DEF DialogShape
  <2>4. PICK s, p : /\ s = [changes |-> d.server.changes, committed |-> d.server.committed, savepoints |-> d.server.savepoints,
                            info |-> info, noBackslashEscapes |-> d.server.noBackslashEscapes, warnings |-> d.server.warnings]
                    /\ p = [connected |-> d.protocol.connected, explicitClosed |-> d.protocol.explicitClosed,
                            noBackslashEscapes |-> d.server.noBackslashEscapes, hasWarnings |-> d.protocol.hasWarnings]
    OBVIOUS
  <2>5. [d.server EXCEPT !.info[name] = read.out] = s
    BY <1>1, <2>2, <2>4 DEF ServerShape
  <2>6. [d.protocol EXCEPT !.noBackslashEscapes = d.server.noBackslashEscapes] = p
    BY <1>1, <2>4 DEF ProtocolShape
  <2>7. r = [server |-> s, held |-> d.held, told |-> given, calls |-> d.calls, cleared |-> d.cleared,
             executed |-> d.calls, atRisk |-> risk, did |-> d.did, protocol |-> p, connection |-> d.connection]
    <3>1. r = [known EXCEPT !.server.info[name] = read.out, !.told[name] = value,
                            !.protocol.noBackslashEscapes = d.server.noBackslashEscapes]
      BY <1>11, <1>9
    <3>2. known.server = d.server /\ known.told = d.told /\ known.protocol = d.protocol
      BY <1>7
    <3>3. r = [known EXCEPT !.server = s, !.told = given, !.protocol = p]
      BY ONLY <2>3, <2>5, <2>6, <3>1, <3>2
    <3> QED
      BY ONLY <1>7, <3>3
  <2>8. info = [n \in InfoNames |-> info[n]] /\ given = [n \in InfoNames |-> given[n]]
    BY <2>1
  <2>9. ServerShape(s) /\ ProtocolShape(p)
    BY <1>1, <2>4, <2>8 DEF ServerShape, ProtocolShape
  <2>10. DialogShape(r)
    BY <1>1, <1>4, <2>7, <2>8, <2>9 DEF DialogShape
  <2>11. InfoStands(info, given, risk)
    <3>1. SUFFICES ASSUME NEW n \in InfoNames, n \notin risk PROVE ValueOf(info[n]) = ValueOf(given[n])
      BY DEF InfoStands
    <3>2. CASE n = name
      BY <1>6, <2>1, <3>1, <3>2
    <3>3. CASE n # name
      BY <1>1, <1>5, <2>1, <3>1, <3>3 DEF DialogStands, InfoStands
    <3> QED
      BY <3>2, <3>3
  <2>12. SavepointsStand(s, d.held, d.connection.savepointCount) /\ s.warnings = 0
    BY <1>1, <2>4 DEF DialogStands, SavepointsStand
  <2>13. WarningsStand(r)
    BY <2>7, <2>12 DEF WarningsStand
  <2>14. r.did = d.did /\ r.atRisk = risk
    BY <2>7
  <2>15. ToldTrue(r)
    <3>1. CASE d.did.what = "nothing"
      BY <2>14, <3>1, NothingToldIsTrue
    <3>2. CASE d.did.what = "info" /\ d.did.ok
      BY <2>14, <3>2 DEF ToldTrue
    <3>3. CASE d.did.what = "info" /\ ~d.did.ok
      <4>1. d.did.name # name /\ d.did.name \in d.atRisk
        BY <3>3 DEF DialogInv, ToldTrue
      <4>2. d.did.name \in risk
        BY <1>3, <4>1 DEF AtRisk
      <4> QED
        BY <2>14, <3>3, <4>2 DEF ToldTrue
    <3> QED
      BY <3>1, <3>2, <3>3
  <2> QED
    <3>1. /\ r.server = s /\ r.held = d.held /\ r.connection = d.connection /\ r.told = given /\ r.atRisk = risk
          /\ s.info = info
      BY <2>4, <2>7
    <3>3. SavepointsStand(r.server, r.held, r.connection.savepointCount) /\ InfoStands(r.server.info, r.told, r.atRisk)
      BY ONLY <2>11, <2>12, <3>1
    <3>2. r.server.warnings = 0
      BY <2>7, <2>12
    <3> QED
      BY <2>10, <2>13, <2>14, <2>15, <3>2, <3>3 DEF DialogStands, DialogInv
<1> QED
  BY <1>10, <1>11

(* The call has reached the server, perhaps through a new connection.           *)
LEMMA AskingStands ==
  ASSUME DialogInv(dialog), NEW did, did.what = "nothing" \/ (did.what = "info" /\ did.ok), NEW r, r = Asking(did)
  PROVE  DialogInv(r) /\ r.server.warnings = 0 /\ r.did = did
<1>1. DialogStands(dialog) /\ DialogShape(dialog) /\ ServerShape(dialog.server) /\ ProtocolShape(dialog.protocol)
      /\ ConnectionShape(dialog.connection)
  BY DEF DialogInv, DialogStands, DialogShape
<1>2. PICK s, p, c :
        /\ s = [changes |-> dialog.server.changes, committed |-> dialog.server.committed, savepoints |-> dialog.server.savepoints,
                info |-> dialog.server.info, noBackslashEscapes |-> dialog.server.noBackslashEscapes, warnings |-> 0]
        /\ p = [connected |-> IF dialog.protocol.connected THEN dialog.protocol.connected ELSE TRUE,
                explicitClosed |-> dialog.protocol.explicitClosed,
                noBackslashEscapes |-> dialog.protocol.noBackslashEscapes, hasWarnings |-> FALSE]
        /\ c = [savepointCount |-> dialog.connection.savepointCount, warningsCleared |-> FALSE,
                lowercaseTableNames |-> dialog.connection.lowercaseTableNames]
  OBVIOUS
<1>3. r = [server |-> s, held |-> dialog.held, told |-> dialog.told, calls |-> dialog.calls + 1, cleared |-> dialog.cleared,
           executed |-> dialog.executed, atRisk |-> dialog.atRisk, did |-> did, protocol |-> p, connection |-> c]
  <2>1. CASE dialog.protocol.connected
    BY <1>1, <1>2, <2>1 DEF Asking, Renewed, Called, DialogShape, ServerShape, ProtocolShape, ConnectionShape
  <2>2. CASE ~dialog.protocol.connected
    BY <1>1, <1>2, <2>2 DEF Asking, Renewed, Reconnected, Called, DialogShape, ServerShape, ProtocolShape, ConnectionShape
  <2> QED
    BY <2>1, <2>2
<1>4. dialog.calls + 1 \in Nat /\ dialog.cleared \in 0..(dialog.calls + 1) /\ dialog.executed \in 0..(dialog.calls + 1)
  BY <1>1 DEF DialogShape
<1>5. ServerShape(s) /\ s.warnings = 0
  BY <1>1, <1>2 DEF ServerShape
<1>6. ProtocolShape(p)
  BY <1>1, <1>2 DEF ProtocolShape
<1>7. ConnectionShape(c) /\ c.savepointCount = dialog.connection.savepointCount
  BY <1>1, <1>2 DEF ConnectionShape
<1>8. DialogShape(r)
  BY <1>1, <1>3, <1>4, <1>5, <1>6, <1>7 DEF DialogShape
<1>9. SavepointsStand(s, dialog.held, c.savepointCount)
  BY <1>1, <1>2, <1>7 DEF DialogStands, SavepointsStand
<1>10. InfoStands(s.info, dialog.told, dialog.atRisk)
  BY <1>1, <1>2 DEF DialogStands
<1>11. WarningsStand(r)
  BY <1>3, <1>5 DEF WarningsStand
<1>12. ToldTrue(r) /\ r.did = did
  BY <1>3 DEF ToldTrue
<1> QED
  BY <1>3, <1>5, <1>8, <1>9, <1>10, <1>11, <1>12 DEF DialogStands, DialogInv

LEMMA SetClientInfoStep ==
  ASSUME DialogInv(dialog), NEW name, NEW value \in InfoValues \cup {<<>>}, SetClientInfo(name, value)
  PROVE  DialogInv(dialog')
<1>1. DialogStands(dialog)
  BY DEF DialogInv
<1>2. CASE dialog' = Throwing("refused")
  <2>1. "refused" # "info" /\ "refused" # "warnings"
    OBVIOUS
  <2> QED
    BY ONLY <1>1, <1>2, <2>1, ThrowingStands
<1>3. CASE dialog' # Throwing("refused")
  <2>1. PICK did, d : did = [what |-> "info", ok |-> TRUE, name |-> name] /\ d = Asking(did)
    OBVIOUS
  <2>2. name \in InfoNames /\ dialog' = SetInfo(d, name, value)
    BY <1>3, <2>1 DEF SetClientInfo, CheckClient
  <2>3. did.what = "info" /\ did.ok /\ did.name = name
    BY <2>1
  <2>4. DialogInv(d) /\ d.server.warnings = 0 /\ d.did = did
    BY <2>1, <2>3, AskingStands
  <2>5. d.did.what = "info" /\ (d.did.name = name => d.did.ok)
    BY <2>3, <2>4
  <2> QED
    BY <2>2, <2>4, <2>5, SetInfoStands
<1> QED
  BY <1>2, <1>3

LEMMA SetClientInfosStep ==
  ASSUME DialogInv(dialog), NEW value \in InfoValues, SetClientInfos([n \in {"ClientUser"} |-> value])
  PROVE  DialogInv(dialog')
<1>1. PICK d0, d1, d2 : /\ d0 = Asking(Nothing) /\ d1 = SetInfo(d0, "ApplicationName", <<>>)
                        /\ d2 = SetInfo(d1, "ClientUser", value) /\ dialog' = SetInfo(d2, "ClientHostname", <<>>)
  BY DEF SetClientInfos
<1>2. value \in InfoValues \cup {<<>>} /\ <<>> \in InfoValues \cup {<<>>}
  OBVIOUS
<1>3. "ApplicationName" \in InfoNames /\ "ClientUser" \in InfoNames /\ "ClientHostname" \in InfoNames
  BY DEF InfoNames
<1>4. DialogInv(d0) /\ d0.server.warnings = 0 /\ d0.did.what = "nothing"
  BY <1>1, AskingStands DEF Nothing
<1>5. DialogInv(d1) /\ d1.server.warnings = 0 /\ (d1.did = d0.did \/ (d1.did.what = "info" /\ d1.did.name = "ApplicationName"))
  BY <1>1, <1>2, <1>3, <1>4, SetInfoStands
<1>6. d1.did.what = "nothing" \/ (d1.did.what = "info" /\ (d1.did.name = "ClientUser" => d1.did.ok))
  BY <1>4, <1>5
<1>7. DialogInv(d2) /\ d2.server.warnings = 0 /\ (d2.did = d1.did \/ (d2.did.what = "info" /\ d2.did.name = "ClientUser"))
  BY <1>1, <1>2, <1>3, <1>5, <1>6, SetInfoStands
<1>8. d2.did.what = "nothing" \/ (d2.did.what = "info" /\ (d2.did.name = "ClientHostname" => d2.did.ok))
  BY <1>4, <1>5, <1>7
<1> QED
  BY <1>1, <1>2, <1>3, <1>7, <1>8, SetInfoStands

(* What the connection's calls tell and do is about the session as it is now,   *)
(* for every set of names and values: a rollback brings back the data of        *)
(* exactly its savepoint, a client info is read back as it was set whatever     *)
(* quotes and backslashes it has, and getWarnings shows only those of the last  *)
(* statement. The number of calls does not enter the proof; CallsAssumption     *)
(* bounds it for the model, where a savepoint's text is its name and one digit. *)
THEOREM CallsAreTrue == CallsSpec => []DialogIsTrue
<1>1. CallsInit => DialogInv(dialog)
  BY CallsBegin
<1>2. DialogInv(dialog) /\ [CallsNext]_dialog => DialogInv(dialog)'
  <2>1. SUFFICES ASSUME DialogInv(dialog), [CallsNext]_dialog
                 PROVE  DialogInv(dialog')
    BY DEF DialogInv, DialogStands, DialogShape, ServerShape, ProtocolShape, ConnectionShape, SavepointsStand, InfoStands,
           WarningsStand, ToldTrue, Marked, IsPrefixOf, HeldMarks, MarkTexts, Marks, ValueOf, InfoNames, NullInfo
  <2>2. CASE SavepointsNext
    BY <2>1, <2>2, ApplicationExecutesStep, CommitStep, CloseStep, ConnectionLostStep, SetSavepointStep, RollbackToStep,
       ReleaseSavepointStep DEF SavepointsNext
  <2>3. CASE InfoNext
    <3>1. ASSUME NEW name, NEW value \in InfoValues, SetClientInfo(name, value)
          PROVE  DialogInv(dialog')
      BY <2>1, <3>1, SetClientInfoStep
    <3> QED
      BY <2>1, <2>3, <3>1, SetSqlModeStep, CloseStep, ConnectionLostStep, GetClientInfoStep, SetClientInfosStep DEF InfoNext
  <2>4. CASE WarningsNext
    <3>1. ASSUME SetClientInfo("ClientUser", <<>>)
          PROVE  DialogInv(dialog')
      BY <2>1, <3>1, SetClientInfoStep
    <3> QED
      BY <2>1, <2>4, <3>1, ApplicationExecutesStep, GetWarningsStep, ClearWarningsStep, GetLowercaseTableNamesStep,
         GetClientInfoStep, CloseStep, ConnectionLostStep DEF WarningsNext
  <2>5. CASE UNCHANGED dialog
    BY <2>1, <2>5
  <2> QED
    BY <2>1, <2>2, <2>3, <2>4, <2>5 DEF CallsNext
<1>3. DialogInv(dialog) => DialogIsTrue
  <2>1. SUFFICES ASSUME DialogInv(dialog) PROVE DialogIsTrue
    OBVIOUS
  <2>2. ToldTrue(dialog) /\ InfoStands(dialog.server.info, dialog.told, dialog.atRisk)
    BY <2>1 DEF DialogInv, DialogStands
  <2> QED
    BY <2>2 DEF ToldTrue, InfoStands, DialogIsTrue, RollbackReturns, ClientInfoIsKept, WarningsAreCurrent
<1> QED
  BY <1>1, <1>2, <1>3, PTL DEF CallsSpec
==============================================================================
