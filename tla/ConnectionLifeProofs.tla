------------------------- MODULE ConnectionLifeProofs -------------------------
(* What the protocol of a connection believes of its session, what becomes of   *)
(* acknowledged work, and how a connection ends: for every list of hosts, every *)
(* number of updates in a transaction and every number of losses.               *)
EXTENDS ConnectionLife, SequenceTheorems, TLAPS

Busy == {"send", "sent", "done"}
Unconnected == {"new", "refused"}
Reconnecting == {"reclose", "resocket", "recreate", "restore"}
Recovering == Reconnecting \cup {"failed"}

\* the server has done the command, and its answer is on the way
Answered == app.pc = "done" /\ app.ok
\* what the protocol, the C library and the application will believe once it is read
Believed == IF Answered THEN AfterAnswer(Head(app.todo)) ELSE proto
Noticed == IF Answered /\ Head(app.todo).op # "setSchema" THEN server.inTransaction ELSE cc.inTransaction
Granted == IF Answered /\ Head(app.todo).op = "setAutoCommit" THEN Head(app.todo).v ELSE wantsAutocommit
\* calls that end a transaction and keep its work
Committing == {Call("commit", 0), Call("setAutoCommit", TRUE)}

\* where the working thread is, with which call and which commands
CallInPlace ==
  /\ app.pc \in Working => app.call \in Calls
  /\ app.pc \in Busy =>
       \/ app.todo = <<app.call>>
       \/ app.call \in StatementCalls /\ \E m \in Limits : app.todo = <<Limit(m), app.call>>
  /\ app.pc \notin Busy => app.todo = <<>>
  /\ ~app.ok => app.pc \in Recovering \cup {"done", "crashed"}
  /\ app.call.op = "update" /\ (app.pc \in {"lock", "send", "sent"} \/ Len(app.todo) = 2) => server.work < MaxWork

\* who has the mutex, and what the other thread cannot do meanwhile
MutexInPlace ==
  /\ lock = "app" <=> app.pc \in Busy
  /\ lock = "other" => other = "aborting"
  /\ other # "start" => proto.explicitClosed
  /\ app.pc \in Unconnected => other = "start"
  /\ app.pc \in Busy /\ app.call \in StatementCalls => other \notin {"socket", "closed"}

\* the handle and the session
HandleInPlace ==
  /\ alive => cc.socket = "open"
  /\ app.pc \in Unconnected \cup (Recovering \ {"restore"}) => ~alive
  /\ app.pc \in Reconnecting => conf.autoReconnect
  /\ ~conf.autoReconnect =>
       /\ other \in {"socket", "closed", "aborting", "aborted"} => ~proto.connected
       /\ other \in {"closed", "aborted"} => ~alive /\ cc.socket = "null"
       /\ cc.socket = "null" => app.pc \in Unconnected \/ other \in {"closed", "aborted"}

Transactional(x) == x.inTransaction => ~x.autocommit

\* what is believed of a session that lives
Agree(p, s) ==
  /\ p.database = s.database
  /\ s.inTransaction => p.inTransaction
  /\ conf.autoReconnect \/ (p.autocommit = s.autocommit /\ p.isolation = s.isolation /\ p.maxRows = s.limit)

BeliefInPlace ==
  /\ Transactional(server) /\ Transactional(proto) /\ (server.work > 0 => server.inTransaction)
  /\ cc.database = proto.database
  /\ alive => /\ Agree(Believed, server)
              /\ server.inTransaction => Noticed
              /\ conf.autoReconnect \/ server.autocommit = Granted
              /\ Answered /\ Head(app.todo) \in Committing => server.work = 0
  /\ app.pc \in Unconnected =>
       wantsAutocommit = conf.autocommit /\ proto.isolation = "none" /\ proto.maxRows = 0 /\ ~proto.inTransaction

\* lost work is known to be lost, or the call under way cannot but fail
WorkInPlace ==
  /\ promised => app.pc = "idle" /\ ~owed /\ (alive => server.work = 0)
  /\ owed => \/ app.pc \in Recovering \cup {"crashed"}
             \/ ~alive /\ (app.pc \in {"sent", "done"} \/ (cc.inTransaction /\ proto.inTransaction))

\* the hosts that are left to try are the first ones of the URL
HostsInPlace ==
  /\ up \cup seenDown = HostSet
  /\ app.pc = "new" =>
       /\ Len(app.hosts) \in 1..Len(Hosts)
       /\ \A i \in 1..Len(app.hosts) : app.hosts[i] = Hosts[i]
       /\ \A i \in (Len(app.hosts) + 1)..Len(Hosts) : Hosts[i] \in seenDown

IInv ==
  /\ LifeTypeOK /\ CallInPlace /\ MutexInPlace /\ HandleInPlace /\ BeliefInPlace
  /\ WorkInPlace /\ WorkWaitsForCommit /\ HostsInPlace
  /\ StatementsHaveAHandle /\ ReachableIsReached

-----------------------------------------------------------------------------
(* Calls and commands                                                           *)

(* Which call is of which kind, and what it carries.                            *)
LEMMA CallKinds ==
  ASSUME NEW c \in Calls
  PROVE  /\ c \in Commands /\ c # None
         /\ c \in StatementCalls <=> c.op \in {"update", "commit", "rollback", "setAutoCommit", "select"}
         /\ c \in EarlyCheckCalls <=> c.op \in {"setTransactionIsolation", "setSchema", "isValid"}
         /\ c \in StatementCalls \/ c \in EarlyCheckCalls
         /\ c.op = "setAutoCommit" => c.v \in BOOLEAN
         /\ c.op = "setTransactionIsolation" => c.v \in Levels
         /\ c.op = "setSchema" => c.v \in Schemas
         /\ c.op = "select" => c.v \in Limits
         /\ c \in Committing <=> (c.op = "commit" \/ (c.op = "setAutoCommit" /\ c.v = TRUE))
BY DEF Calls, StatementCalls, EarlyCheckCalls, Commands, None, Call, Committing, Levels, Schemas, Limits

(* The command that goes before a statement.                                    *)
LEMMA LimitKinds ==
  ASSUME NEW m \in Limits
  PROVE  /\ Limit(m) \in Commands /\ Limit(m).op = "limit" /\ Limit(m).v = m
         /\ Limit(m) \notin Committing /\ Limit(m) \notin Calls
BY DEF Commands, Limit, Call, Committing, Calls, StatementCalls, EarlyCheckCalls

(* What can be left to do.                                                      *)
LEMMA TodoKinds ==
  ASSUME NEW c \in Commands, NEW d \in Commands
  PROVE  /\ <<>> \in UNION {[1..n -> Commands] : n \in 0..2}
         /\ <<c>> \in UNION {[1..n -> Commands] : n \in 0..2}
         /\ <<c, d>> \in UNION {[1..n -> Commands] : n \in 0..2}
<1>1. <<>> \in [1..0 -> Commands] /\ <<c>> \in [1..1 -> Commands] /\ <<c, d>> \in [1..2 -> Commands]
  OBVIOUS
<1>2. 0 \in 0..2 /\ 1 \in 0..2 /\ 2 \in 0..2
  OBVIOUS
<1> QED
  BY ONLY <1>1, <1>2

-----------------------------------------------------------------------------
(* How a call ends                                                              *)

LEMMA CallReturns ==
  ASSUME LifeTypeOK, NEW c \in Calls, Returns(c)
  PROVE  /\ app' \in ThreadType /\ app'.pc = "idle" /\ app'.call = None /\ app'.todo = <<>> /\ app'.ok = TRUE
         /\ app'.hosts = app.hosts
         /\ promised' \in BOOLEAN /\ (promised' <=> c \in Committing)
         /\ wantsAutocommit' \in BOOLEAN
         /\ wantsAutocommit' = IF c.op = "setAutoCommit" THEN c.v ELSE wantsAutocommit
<1>1. <<>> \in UNION {[1..n -> Commands] : n \in 0..2}
  BY TodoKinds, CallKinds
<1>2. app' = [app EXCEPT !.pc = "idle", !.call = None, !.todo = <<>>, !.ok = TRUE]
  BY DEF Returns
<1>3. /\ app' \in ThreadType /\ app'.pc = "idle" /\ app'.call = None /\ app'.todo = <<>> /\ app'.ok = TRUE
      /\ app'.hosts = app.hosts
  BY <1>1, <1>2 DEF LifeTypeOK, ThreadType, Working
<1>4. promised' \in BOOLEAN /\ (promised' <=> c \in Committing)
  <2>1. promised' = (c \in Committing)
    BY DEF Returns, Committing
  <2>2. promised' \in BOOLEAN
    BY <2>1, SMT
  <2>3. promised' <=> c \in Committing
    BY <2>1, Zenon
  <2> QED
    BY <2>2, <2>3
<1>5. wantsAutocommit' = IF c.op = "setAutoCommit" THEN c.v ELSE wantsAutocommit
  BY DEF Returns
<1>6. wantsAutocommit' \in BOOLEAN
  BY <1>5, CallKinds DEF LifeTypeOK
<1> QED
  BY <1>3, <1>4, <1>5, <1>6

LEMMA CallThrows ==
  ASSUME LifeTypeOK, NEW c \in Calls, Throws(c)
  PROVE  /\ app' \in ThreadType /\ app'.pc = "idle" /\ app'.call = None /\ app'.todo = <<>> /\ app'.ok = TRUE
         /\ app'.hosts = app.hosts
         /\ promised' = FALSE /\ owed' = FALSE /\ wantsAutocommit' = wantsAutocommit
<1>1. <<>> \in UNION {[1..n -> Commands] : n \in 0..2}
  BY TodoKinds, CallKinds
<1> QED
  BY <1>1 DEF LifeTypeOK, ThreadType, Throws, Working

LEMMA CallCrashes ==
  ASSUME LifeTypeOK, NEW c \in Calls, Crashes(c)
  PROVE  /\ app' \in ThreadType /\ app'.pc = "crashed" /\ app'.call = None /\ app'.todo = <<>> /\ app'.ok = app.ok
         /\ app'.hosts = app.hosts /\ fault' = c
         /\ promised' = promised /\ owed' = owed /\ wantsAutocommit' = wantsAutocommit
<1>1. <<>> \in UNION {[1..n -> Commands] : n \in 0..2}
  BY TodoKinds, CallKinds
<1> QED
  BY <1>1 DEF LifeTypeOK, ThreadType, Crashes, Working

(* Whatever the thread has to do, it is at another place.                       *)
LEMMA CallGoesOn ==
  ASSUME LifeTypeOK, NEW loc \in Working, app' = [app EXCEPT !.pc = loc]
  PROVE  /\ app' \in ThreadType /\ app'.pc = loc /\ app'.call = app.call /\ app'.todo = app.todo
         /\ app'.ok = app.ok /\ app'.hosts = app.hosts
BY DEF LifeTypeOK, ThreadType

(* A call that throws leaves what the protocol and the C library know of a      *)
(* session that lives, and the application knows of its losses.                 *)
LEMMA ThrowEnds ==
  ASSUME IInv, LifeTypeOK', app.pc \notin Unconnected, ~(Answered /\ alive),
         app'.pc = "idle" /\ app'.call = None /\ app'.todo = <<>> /\ app'.ok = TRUE,
         promised' = FALSE /\ owed' = FALSE /\ wantsAutocommit' = wantsAutocommit,
         lock' = IF lock = "app" THEN "free" ELSE lock,
         UNCHANGED <<conf, up, seenDown, alive, other, leaked, fault>>,
         proto'.connected => proto.connected,
         proto'.explicitClosed = proto.explicitClosed /\ proto'.autocommit = proto.autocommit,
         proto'.inTransaction = proto.inTransaction /\ proto'.isolation = proto.isolation,
         proto'.database = proto.database /\ proto'.maxRows = proto.maxRows,
         alive => cc' = cc, cc'.database = cc.database, cc'.socket = "null" <=> cc.socket = "null",
         server'.autocommit = server.autocommit /\ server'.inTransaction = server.inTransaction,
         server'.database = server.database /\ server'.limit = server.limit /\ server'.work = server.work,
         server'.isolation = server.isolation \/ conf.autoReconnect
  PROVE  IInv'
<1>1. CallInPlace'
  BY DEF CallInPlace, Busy, Working, None, Call
<1>2. MutexInPlace'
  BY DEF IInv, MutexInPlace, Busy, Unconnected
<1>3. HandleInPlace'
  BY DEF IInv, HandleInPlace, Unconnected, Recovering, Reconnecting
<1>4. BeliefInPlace'
  <2>1. alive => Believed = proto /\ Noticed = cc.inTransaction /\ Granted = wantsAutocommit
    BY DEF Believed, Noticed, Granted
  <2>2. ~Answered' /\ Believed' = proto' /\ Noticed' = cc'.inTransaction /\ Granted' = wantsAutocommit'
    BY DEF Answered, Believed, Noticed, Granted
  <2> QED
    BY <2>1, <2>2 DEF IInv, BeliefInPlace, Agree, Transactional, Unconnected
<1>5. WorkInPlace'
  BY DEF WorkInPlace
<1>6. HostsInPlace' /\ StatementsHaveAHandle' /\ ReachableIsReached' /\ WorkWaitsForCommit'
  BY DEF IInv, HostsInPlace, StatementsHaveAHandle, ReachableIsReached, WorkWaitsForCommit
<1> QED
  BY <1>1, <1>2, <1>3, <1>4, <1>5, <1>6 DEF IInv

(* A call that meets a handle that is gone ends the thread.                     *)
LEMMA CrashEnds ==
  ASSUME IInv, LifeTypeOK', NEW c, app.pc \in Working, cc.socket = "null",
         app'.pc = "crashed" /\ app'.call = None /\ app'.todo = <<>>,
         promised' = promised /\ owed' = owed /\ wantsAutocommit' = wantsAutocommit,
         lock' = IF lock = "app" THEN "free" ELSE lock,
         UNCHANGED <<conf, up, seenDown, alive, other, leaked, proto, cc, server>>,
         fault' = c, c \in StatementCalls => other \in {"aborting", "aborted"} \/ conf.autoReconnect
  PROVE  IInv'
<1>0. ~alive /\ app.pc \notin Unconnected /\ ~promised
  BY DEF IInv, HandleInPlace, WorkInPlace, Working, Unconnected
<1>1. CallInPlace'
  BY DEF CallInPlace, Busy, Working, None, Call
<1>2. MutexInPlace'
  BY DEF IInv, MutexInPlace, Busy, Unconnected
<1>3. HandleInPlace'
  BY <1>0 DEF IInv, HandleInPlace, Unconnected, Recovering, Reconnecting
<1>4. BeliefInPlace'
  BY <1>0 DEF IInv, BeliefInPlace, Transactional, Unconnected
<1>5. WorkInPlace'
  BY <1>0 DEF WorkInPlace
<1>6. HostsInPlace' /\ StatementsHaveAHandle' /\ ReachableIsReached' /\ WorkWaitsForCommit'
  BY DEF IInv, HostsInPlace, StatementsHaveAHandle, ReachableIsReached, WorkWaitsForCommit
<1> QED
  BY <1>1, <1>2, <1>3, <1>4, <1>5, <1>6 DEF IInv

(* While the working thread stays where it is, its answer included, what is     *)
(* believed stays true; work that is lost is known, or the answer fails.        *)
LEMMA AppStays ==
  ASSUME IInv, LifeTypeOK', UNCHANGED <<conf, server, app, promised, wantsAutocommit, leaked>>,
         alive' => alive,
         proto'.autocommit = proto.autocommit /\ proto'.inTransaction = proto.inTransaction,
         proto'.isolation = proto.isolation /\ proto'.database = proto.database /\ proto'.maxRows = proto.maxRows,
         cc'.inTransaction = cc.inTransaction /\ cc'.database = cc.database,
         owed' => owed \/ (alive /\ ~alive' /\ server.work > 0)
  PROVE  CallInPlace' /\ BeliefInPlace' /\ WorkInPlace' /\ WorkWaitsForCommit'
<1>1. CallInPlace' /\ WorkWaitsForCommit'
  BY DEF IInv, CallInPlace, WorkWaitsForCommit
<1>2. BeliefInPlace'
  <2>1. Answered' = Answered /\ Noticed' = Noticed /\ Granted' = Granted
    BY DEF Answered, Noticed, Granted
  <2>2. Agree(Believed, server) => Agree(Believed, server)'
    BY <2>1 DEF Agree, Believed, AfterAnswer, ReadStatus, LifeTypeOK, ProtocolType, IInv
  <2> QED
    BY <2>1, <2>2 DEF IInv, BeliefInPlace, Transactional
<1>3. WorkInPlace'
  <2>1. ASSUME alive, server.work > 0
        PROVE  ~promised /\ (app.pc \in {"sent", "done"} \/ (cc.inTransaction /\ proto.inTransaction))
    <3>1. ~promised /\ server.inTransaction
      BY <2>1 DEF IInv, WorkInPlace, BeliefInPlace
    <3>2. CASE app.pc = "done"
      BY <3>1, <3>2
    <3>3. CASE app.pc # "done"
      BY <2>1, <3>1, <3>3 DEF IInv, BeliefInPlace, Agree, Believed, Noticed, Answered
    <3> QED
      BY <3>2, <3>3
  <2> QED
    BY <2>1 DEF IInv, WorkInPlace
<1> QED
  BY <1>1, <1>2, <1>3

-----------------------------------------------------------------------------
LEMMA EnterStep == ASSUME IInv, Enter PROVE IInv'
<1>1. /\ LifeTypeOK /\ app.pc = "lock" /\ app.call \in Calls /\ app.todo = <<>> /\ lock = "free" /\ app.ok
      /\ UNCHANGED <<conf, up, seenDown, losses, server, alive, cc, proto, other, leaked, fault>>
  BY DEF Enter, envVars, IInv, CallInPlace, Working, Busy, Recovering, Reconnecting
<1>2. CASE app.call \in StatementCalls /\ proto.explicitClosed
  <2>1. /\ app' \in ThreadType /\ app'.pc = "idle" /\ app'.call = None /\ app'.todo = <<>> /\ app'.ok = TRUE
        /\ lock' = lock
        /\ promised' = FALSE /\ owed' = FALSE /\ wantsAutocommit' = wantsAutocommit
    BY <1>1, <1>2, CallThrows DEF Enter
  <2>2. LifeTypeOK'
    BY <1>1, <2>1 DEF LifeTypeOK
  <2> QED
    BY <1>1, <2>1, <2>2, ThrowEnds DEF Answered, Unconnected
<1>3. CASE ~(app.call \in StatementCalls /\ proto.explicitClosed)
  <2>1. PICK q \in UNION {[1..n -> Commands] : n \in 0..2} :
          /\ q = Prolog(app.call)
          /\ q = <<app.call>> \/ (app.call \in StatementCalls /\ \E m \in Limits : q = <<Limit(m), app.call>>)
    <3>1. MaxRowsOf(app.call) \in Limits
      BY <1>1, CallKinds DEF MaxRowsOf, Limits
    <3>2. /\ <<app.call>> \in UNION {[1..n -> Commands] : n \in 0..2}
          /\ <<Limit(MaxRowsOf(app.call)), app.call>> \in UNION {[1..n -> Commands] : n \in 0..2}
      BY <1>1, <3>1, CallKinds, LimitKinds, TodoKinds
    <3> QED
      BY <3>1, <3>2, Zenon DEF Prolog
  <2>2. app' = [app EXCEPT !.pc = "send", !.todo = q] /\ lock' = "app" /\ UNCHANGED <<promised, wantsAutocommit, owed>>
    BY <1>3, <2>1 DEF Enter
  <2>3. app' \in ThreadType /\ app'.pc = "send" /\ app'.call = app.call /\ app'.todo = q /\ app'.ok = app.ok
    BY <1>1, <2>2 DEF LifeTypeOK, ThreadType, Working
  <2>4. LifeTypeOK'
    BY <1>1, <2>2, <2>3 DEF LifeTypeOK, Threads
  <2>5. CallInPlace'
    BY <1>1, <2>1, <2>3 DEF IInv, CallInPlace, Busy, Working
  <2>6. MutexInPlace' /\ HandleInPlace'
    BY <1>1, <1>3, <2>2, <2>3 DEF IInv, MutexInPlace, HandleInPlace, Busy, Unconnected, Recovering, Reconnecting
  <2>7. BeliefInPlace' /\ WorkInPlace'
    BY <1>1, <2>2, <2>3 DEF IInv, BeliefInPlace, WorkInPlace, Believed, Noticed, Granted, Answered, Agree, Transactional,
                            Unconnected, Recovering, Reconnecting
  <2>8. HostsInPlace' /\ StatementsHaveAHandle' /\ ReachableIsReached' /\ WorkWaitsForCommit'
    BY <1>1, <2>3 DEF IInv, HostsInPlace, StatementsHaveAHandle, ReachableIsReached, WorkWaitsForCommit
  <2> QED
    BY <2>4, <2>5, <2>6, <2>7, <2>8 DEF IInv
<1> QED
  BY <1>2, <1>3

LEMMA BeginStep == ASSUME IInv, NEW c \in Calls, Begin(c) PROVE IInv'
<1>1. /\ LifeTypeOK /\ app.pc = "idle" /\ app.todo = <<>> /\ app.ok /\ ~Answered
      /\ UNCHANGED <<conf, up, seenDown, losses, server, alive, cc, proto, lock, other, leaked, fault>>
  BY DEF Begin, envVars, IInv, CallInPlace, Answered, Busy, Recovering, Reconnecting
<1>2. CASE NothingToDo(c) /\ Returns(c) /\ UNCHANGED owed
  <2>1. /\ app' \in ThreadType /\ app'.pc = "idle" /\ app'.call = None /\ app'.todo = <<>> /\ app'.ok = TRUE
        /\ promised' \in BOOLEAN /\ (promised' <=> c \in Committing)
        /\ wantsAutocommit' \in BOOLEAN
        /\ wantsAutocommit' = IF c.op = "setAutoCommit" THEN c.v ELSE wantsAutocommit
        /\ owed' = owed
    BY <1>1, <1>2, CallReturns
  <2>2. LifeTypeOK'
    BY <1>1, <2>1 DEF LifeTypeOK
  <2>3. c \in Committing => ~proto.inTransaction
    BY <1>1, <1>2, CallKinds DEF NothingToDo, IInv, BeliefInPlace, Transactional
  <2>4. CallInPlace'
    BY <2>1 DEF CallInPlace, Busy, Working, None, Call
  <2>5. MutexInPlace' /\ HandleInPlace'
    BY <1>1, <2>1 DEF IInv, MutexInPlace, HandleInPlace, Busy, Unconnected, Recovering, Reconnecting
  <2>6. BeliefInPlace'
    <3>1. Believed = proto /\ Noticed = cc.inTransaction /\ Granted = wantsAutocommit
      BY <1>1 DEF Believed, Noticed, Granted
    <3>2. ~Answered' /\ Believed' = proto' /\ Noticed' = cc'.inTransaction /\ Granted' = wantsAutocommit'
      BY <2>1 DEF Answered, Believed, Noticed, Granted
    <3>3. c.op = "setAutoCommit" => c.v = proto.autocommit
      BY <1>2 DEF NothingToDo
    <3> QED
      BY <1>1, <2>1, <3>1, <3>2, <3>3 DEF IInv, BeliefInPlace, Agree, Transactional, Unconnected
  <2>7. WorkInPlace'
    <3>1. ASSUME c \in Committing PROVE ~owed /\ (alive => server.work = 0)
      <4>1. ~owed
        BY <1>1, <2>3, <3>1 DEF IInv, WorkInPlace, Recovering, Reconnecting
      <4>2. alive => ~server.inTransaction
        BY <1>1, <2>3, <3>1 DEF IInv, BeliefInPlace, Agree, Believed
      <4> QED
        BY <1>1, <4>1, <4>2 DEF IInv, BeliefInPlace, LifeTypeOK, SessionType
    <3> QED
      BY <1>1, <2>1, <3>1 DEF IInv, WorkInPlace
  <2>8. HostsInPlace' /\ StatementsHaveAHandle' /\ ReachableIsReached' /\ WorkWaitsForCommit'
    BY <1>1, <2>1 DEF IInv, HostsInPlace, StatementsHaveAHandle, ReachableIsReached, WorkWaitsForCommit
  <2> QED
    BY <2>2, <2>4, <2>5, <2>6, <2>7, <2>8 DEF IInv
<1>3. CASE c \in EarlyCheckCalls /\ ~proto.connected /\ Throws(c)
  <2>1. /\ app' \in ThreadType /\ app'.pc = "idle" /\ app'.call = None /\ app'.todo = <<>> /\ app'.ok = TRUE
        /\ promised' = FALSE /\ owed' = FALSE /\ wantsAutocommit' = wantsAutocommit
    BY <1>1, <1>3, CallThrows
  <2>2. LifeTypeOK' /\ lock # "app"
    BY <1>1, <2>1 DEF LifeTypeOK, IInv, MutexInPlace, Busy
  <2> QED
    BY <1>1, <2>1, <2>2, ThrowEnds DEF Unconnected
<1>4. CASE /\ ~NothingToDo(c) /\ (c \in EarlyCheckCalls => proto.connected)
           /\ app' = [app EXCEPT !.pc = "lock", !.call = c] /\ promised' = FALSE
           /\ UNCHANGED <<wantsAutocommit, owed>>
  <2>1. app' \in ThreadType /\ app'.pc = "lock" /\ app'.call = c /\ app'.todo = <<>> /\ app'.ok = app.ok
    BY <1>1, <1>4 DEF LifeTypeOK, ThreadType, Working
  <2>2. LifeTypeOK'
    BY <1>1, <1>4, <2>1 DEF LifeTypeOK
  <2>3. CallInPlace'
    BY <1>1, <2>1 DEF Begin, CallInPlace, Busy
  <2>4. MutexInPlace' /\ HandleInPlace'
    BY <1>1, <2>1 DEF IInv, MutexInPlace, HandleInPlace, Busy, Unconnected, Recovering, Reconnecting
  <2>5. BeliefInPlace' /\ WorkInPlace'
    BY <1>1, <1>4, <2>1 DEF IInv, BeliefInPlace, WorkInPlace, Believed, Noticed, Granted, Answered, Agree, Transactional,
                            Unconnected, Recovering, Reconnecting
  <2>6. HostsInPlace' /\ StatementsHaveAHandle' /\ ReachableIsReached' /\ WorkWaitsForCommit'
    BY <1>1, <2>1 DEF IInv, HostsInPlace, StatementsHaveAHandle, ReachableIsReached, WorkWaitsForCommit
  <2> QED
    BY <2>2, <2>3, <2>4, <2>5, <2>6 DEF IInv
<1> QED
  BY <1>2, <1>3, <1>4 DEF Begin

(* The handle reports that the session is gone.                                 *)
LEMMA LostStep ==
  ASSUME IInv, app.pc \in Busy, ~alive, cc.socket # "null", NEW reading, Lost(reading),
         UNCHANGED <<conf, up, seenDown, losses, server, alive, proto, other, leaked, fault>>
  PROVE  IInv'
<1>1. /\ LifeTypeOK /\ app.pc \in Working /\ app.call \in Calls /\ lock = "app" /\ ~promised
      /\ app.pc \notin Unconnected /\ app.pc # "idle"
  BY DEF IInv, CallInPlace, MutexInPlace, WorkInPlace, Busy, Working, Unconnected
<1>2. cc' = [cc EXCEPT !.socket = "closed", !.inTransaction = FALSE]
  BY DEF Lost
<1>3. cc' \in HandleType /\ cc'.socket = "closed" /\ cc'.inTransaction = FALSE /\ cc'.database = cc.database
  BY <1>1, <1>2 DEF LifeTypeOK, HandleType
<1>4. CASE app.call.op = "setSchema" \/ (app.call \in StatementCalls /\ reading)
  <2>1. /\ lock' = "free" /\ app' = [app EXCEPT !.pc = "failed", !.todo = <<>>]
        /\ UNCHANGED <<promised, wantsAutocommit, owed>>
    BY <1>4 DEF Lost, LockAfterLoss
  <2>2. <<>> \in UNION {[1..n -> Commands] : n \in 0..2}
    BY <1>1, TodoKinds, CallKinds
  <2>3. app' \in ThreadType /\ app'.pc = "failed" /\ app'.call = app.call /\ app'.todo = <<>>
    BY <1>1, <2>1, <2>2 DEF LifeTypeOK, ThreadType, Working
  <2>4. LifeTypeOK'
    BY <1>1, <1>3, <2>1, <2>3 DEF LifeTypeOK
  <2>5. CallInPlace'
    BY <1>1, <2>3 DEF CallInPlace, Busy, Recovering
  <2>6. MutexInPlace' /\ HandleInPlace'
    BY <1>1, <1>3, <2>1, <2>3 DEF IInv, MutexInPlace, HandleInPlace, Busy, Unconnected, Recovering, Reconnecting
  <2>7. BeliefInPlace' /\ WorkInPlace'
    BY <1>1, <1>3, <2>1, <2>3 DEF IInv, BeliefInPlace, WorkInPlace, Transactional, Unconnected, Recovering
  <2>8. HostsInPlace' /\ StatementsHaveAHandle' /\ ReachableIsReached' /\ WorkWaitsForCommit'
    BY <2>3 DEF IInv, HostsInPlace, StatementsHaveAHandle, ReachableIsReached, WorkWaitsForCommit
  <2> QED
    BY <2>4, <2>5, <2>6, <2>7, <2>8 DEF IInv
<1>5. CASE ~(app.call.op = "setSchema" \/ (app.call \in StatementCalls /\ reading))
  <2>1. Throws(app.call) /\ lock' = IF lock = "app" THEN "free" ELSE lock
    BY <1>5 DEF Lost, Release
  <2>2. /\ app' \in ThreadType /\ app'.pc = "idle" /\ app'.call = None /\ app'.todo = <<>> /\ app'.ok = TRUE
        /\ promised' = FALSE /\ owed' = FALSE /\ wantsAutocommit' = wantsAutocommit
    BY <1>1, <2>1, CallThrows
  <2>3. LifeTypeOK'
    BY <1>1, <1>3, <2>1, <2>2 DEF LifeTypeOK
  <2> QED
    BY <1>1, <1>3, <2>1, <2>2, <2>3, ThrowEnds
<1> QED
  BY <1>4, <1>5

(* A statement that runs has a handle, unless abort() or a reconnect took it.   *)
LEMMA HandleGone ==
  ASSUME IInv, app.pc \in Busy, cc.socket = "null", app.call \in StatementCalls
  PROVE  other \in {"aborting", "aborted"} \/ conf.autoReconnect
BY DEF IInv, MutexInPlace, HandleInPlace, Busy, Unconnected

LEMMA SendStep == ASSUME IInv, Send PROVE IInv'
<1>1. /\ LifeTypeOK /\ app.pc = "send" /\ app.pc \in Working /\ app.pc \in Busy /\ app.pc \notin Unconnected
      /\ app.call \in Calls /\ ~Answered /\ ~promised /\ lock = "app"
      /\ UNCHANGED <<conf, up, seenDown, losses, proto, other, leaked>>
  BY DEF Send, envVars, IInv, CallInPlace, MutexInPlace, WorkInPlace, Answered, Busy, Working, Unconnected
<1>2. CASE Throws(app.call) /\ Release /\ UNCHANGED <<server, alive, cc, fault>>
  <2>1. /\ app' \in ThreadType /\ app'.pc = "idle" /\ app'.call = None /\ app'.todo = <<>> /\ app'.ok = TRUE
        /\ promised' = FALSE /\ owed' = FALSE /\ wantsAutocommit' = wantsAutocommit
        /\ lock' = IF lock = "app" THEN "free" ELSE lock
    BY <1>1, <1>2, CallThrows DEF Release
  <2>2. LifeTypeOK'
    BY <1>1, <1>2, <2>1 DEF LifeTypeOK
  <2> QED
    BY <1>1, <1>2, <2>1, <2>2, ThrowEnds
<1>3. CASE cc.socket = "null" /\ Crashes(app.call) /\ Release /\ UNCHANGED <<server, alive, cc>>
  <2>1. /\ app' \in ThreadType /\ app'.pc = "crashed" /\ app'.call = None /\ app'.todo = <<>>
        /\ fault' = app.call /\ promised' = promised /\ owed' = owed /\ wantsAutocommit' = wantsAutocommit
        /\ lock' = IF lock = "app" THEN "free" ELSE lock
    BY <1>1, <1>3, CallCrashes DEF Release
  <2>2. LifeTypeOK'
    BY <1>1, <1>3, <2>1 DEF LifeTypeOK
  <2>3. app.call \in StatementCalls => other \in {"aborting", "aborted"} \/ conf.autoReconnect
    BY <1>1, <1>3, HandleGone
  <2> QED
    BY <1>1, <1>3, <2>1, <2>2, <2>3, CrashEnds
<1>4. CASE /\ cc.socket = "open" /\ app' = [app EXCEPT !.pc = "sent"]
           /\ UNCHANGED <<server, alive, cc, lock, promised, wantsAutocommit, owed, fault>>
  <2>1. /\ app' \in ThreadType /\ app'.pc = "sent" /\ app'.call = app.call /\ app'.todo = app.todo
        /\ app'.ok = app.ok
    BY <1>1, <1>4, CallGoesOn DEF Working
  <2>2. LifeTypeOK'
    BY <1>1, <1>4, <2>1 DEF LifeTypeOK
  <2>3. CallInPlace'
    BY <1>1, <1>4, <2>1 DEF IInv, CallInPlace, Busy, Working, Recovering, Reconnecting
  <2>4. MutexInPlace' /\ HandleInPlace'
    BY <1>1, <1>4, <2>1 DEF IInv, MutexInPlace, HandleInPlace, Busy, Unconnected, Recovering, Reconnecting
  <2>5. BeliefInPlace' /\ WorkInPlace'
    BY <1>1, <1>4, <2>1 DEF IInv, BeliefInPlace, WorkInPlace, Believed, Noticed, Granted, Answered, Agree,
                            Transactional, Unconnected, Recovering, Reconnecting
  <2>6. HostsInPlace' /\ StatementsHaveAHandle' /\ ReachableIsReached' /\ WorkWaitsForCommit'
    BY <1>1, <1>4, <2>1 DEF IInv, HostsInPlace, StatementsHaveAHandle, ReachableIsReached, WorkWaitsForCommit
  <2> QED
    BY <2>2, <2>3, <2>4, <2>5, <2>6 DEF IInv
<1>5. CASE /\ cc.socket = "closed" \/ (cc.socket = "open" /\ ~alive)
           /\ SilentReconnect /\ app' = [app EXCEPT !.pc = "sent"]
           /\ UNCHANGED <<lock, promised, wantsAutocommit, owed, fault>>
  <2>1. /\ app' \in ThreadType /\ app'.pc = "sent" /\ app'.call = app.call /\ app'.todo = app.todo
        /\ app'.ok = app.ok
    BY <1>1, <1>5, CallGoesOn DEF Working
  <2>2. /\ conf.autoReconnect /\ ~cc.inTransaction /\ alive' = TRUE /\ server' = NewSession(cc.database)
        /\ cc' = [cc EXCEPT !.socket = "open"]
    BY <1>5 DEF SilentReconnect, CanReconnect
  <2>3. /\ server' \in SessionType /\ server'.autocommit = TRUE /\ server'.inTransaction = FALSE
        /\ server'.work = 0 /\ server'.database = cc.database
    BY <1>1, <2>2, ConnectionLifeAssumption DEF LifeTypeOK, NewSession, SessionType, HandleType, Levels, Limits
  <2>4. cc' \in HandleType /\ cc'.socket = "open" /\ cc'.inTransaction = FALSE /\ cc'.database = cc.database
    BY <1>1, <2>2 DEF LifeTypeOK, HandleType
  <2>5. ~alive
    BY <1>5 DEF IInv, HandleInPlace
  <2>6. LifeTypeOK'
    BY <1>1, <1>5, <2>1, <2>2, <2>3, <2>4 DEF LifeTypeOK
  <2>7. CallInPlace'
    <3>1. server.work < MaxWork => 0 < MaxWork
      BY <1>1, ConnectionLifeAssumption DEF LifeTypeOK, SessionType
    <3> QED
      BY <1>1, <2>1, <2>3, <3>1 DEF IInv, CallInPlace, Busy, Working, Recovering, Reconnecting
  <2>8. MutexInPlace' /\ HandleInPlace'
    BY <1>1, <1>5, <2>1, <2>2, <2>4 DEF IInv, MutexInPlace, HandleInPlace, Busy, Unconnected, Recovering, Reconnecting
  <2>9. BeliefInPlace'
    BY <1>1, <1>5, <2>1, <2>2, <2>3, <2>4 DEF IInv, BeliefInPlace, Believed, Noticed, Granted, Answered, Agree,
                                              Transactional, Unconnected
  <2>10. WorkInPlace'
    BY <1>1, <1>5, <2>1, <2>2 DEF IInv, WorkInPlace, Recovering, Reconnecting
  <2>11. HostsInPlace' /\ StatementsHaveAHandle' /\ ReachableIsReached' /\ WorkWaitsForCommit'
    BY <1>1, <1>5, <2>1 DEF IInv, HostsInPlace, StatementsHaveAHandle, ReachableIsReached, WorkWaitsForCommit
  <2> QED
    BY <2>6, <2>7, <2>8, <2>9, <2>10, <2>11 DEF IInv
<1>6. CASE /\ cc.socket = "closed" \/ (cc.socket = "open" /\ ~alive)
           /\ Lost(FALSE) /\ UNCHANGED <<server, alive, fault>>
  BY <1>1, <1>6, LostStep DEF IInv, HandleInPlace
<1> QED
  BY <1>2, <1>3, <1>4, <1>5, <1>6 DEF Send

(* What the first command of a call is: the call itself, or the row limit.      *)
LEMMA FirstCommand ==
  ASSUME IInv, app.pc \in Busy
  PROVE  /\ Head(app.todo) \in Commands
         /\ \/ Head(app.todo) = app.call /\ app.todo = <<app.call>> /\ Len(app.todo) = 1
            \/ \E m \in Limits : /\ Head(app.todo) = Limit(m) /\ app.todo = <<Limit(m), app.call>>
                                 /\ Len(app.todo) = 2 /\ Tail(app.todo) = <<app.call>>
                                 /\ app.call \in StatementCalls
<1>1. app.call \in Calls
  BY DEF IInv, CallInPlace, Busy, Working
<1>2. CASE app.todo = <<app.call>>
  <2>1. Head(app.todo) = app.call /\ Len(app.todo) = 1
    BY <1>2
  <2> QED
    BY <1>1, <1>2, <2>1, CallKinds
<1>3. ASSUME app.call \in StatementCalls, NEW m \in Limits, app.todo = <<Limit(m), app.call>>
      PROVE  /\ Head(app.todo) \in Commands /\ Head(app.todo) = Limit(m)
             /\ Len(app.todo) = 2 /\ Tail(app.todo) = <<app.call>>
  BY <1>3, LimitKinds
<1> QED
  BY <1>2, <1>3 DEF IInv, CallInPlace

(* What every command is to the server.                                         *)
LEMMA CommandKinds ==
  ASSUME NEW c \in Commands
  PROVE  /\ c.op \in {"update", "commit", "rollback", "setAutoCommit", "select", "limit",
                      "setTransactionIsolation", "setSchema", "isValid"}
         /\ c.op = "setAutoCommit" => c.v \in BOOLEAN
         /\ c.op = "setTransactionIsolation" => c.v \in Levels
         /\ c.op = "setSchema" => c.v \in Schemas
         /\ c.op = "limit" => c.v \in Limits
         /\ c \in Committing <=> (c.op = "commit" \/ (c.op = "setAutoCommit" /\ c.v = TRUE))
<1>1. CASE c \in Calls
  BY <1>1, CallKinds DEF StatementCalls, EarlyCheckCalls
<1>2. ASSUME NEW m \in Limits, c = Limit(m)
      PROVE  c.op = "limit" /\ c.v = m /\ c \notin Committing
  BY <1>2, LimitKinds
<1> QED
  BY <1>1, <1>2 DEF Commands

(* The server does a command: a session stays one that is in a transaction only *)
(* without autocommit, and has work only in a transaction.                      *)
LEMMA PerformKeeps ==
  ASSUME NEW s \in SessionType, NEW c \in Commands, c.op = "update" => s.work < MaxWork,
         Transactional(s), s.work > 0 => s.inTransaction, NEW r, r = Perform(s, c)
  PROVE  /\ r \in SessionType
         /\ Transactional(r) /\ (r.work > 0 => r.inTransaction)
         /\ c \in Committing => r.work = 0
         /\ r.autocommit = IF c.op = "setAutoCommit" THEN c.v ELSE s.autocommit
         /\ r.isolation = IF c.op = "setTransactionIsolation" THEN c.v ELSE s.isolation
         /\ r.database = IF c.op = "setSchema" THEN c.v ELSE s.database
         /\ r.limit = IF c.op = "limit" THEN c.v ELSE s.limit
         /\ c.op \in {"setTransactionIsolation", "setSchema", "isValid"} => r.inTransaction = s.inTransaction
         /\ c.op = "limit" => r.work = s.work
<1>0. 0 \in 0..MaxWork /\ (s.work < MaxWork => s.work + 1 \in 0..MaxWork) /\ s.work \in Nat
  BY ConnectionLifeAssumption DEF SessionType
<1>1. CASE c.op = "update"
  <2>1. r = IF Autocommitted(s) THEN s ELSE [s EXCEPT !.inTransaction = TRUE, !.work = @ + 1]
    BY <1>1 DEF Perform
  <2> QED
    BY <1>0, <1>1, <2>1, CommandKinds DEF SessionType, Autocommitted, Transactional
<1>2. CASE c.op \in {"commit", "rollback"}
  <2>1. r = [s EXCEPT !.inTransaction = FALSE, !.work = 0]
    BY <1>2 DEF Perform, Ended
  <2>2. r \in SessionType
    BY <1>0, <2>1 DEF SessionType
  <2>3. /\ r.inTransaction = FALSE /\ r.work = 0 /\ r.autocommit = s.autocommit
        /\ r.isolation = s.isolation /\ r.database = s.database /\ r.limit = s.limit
    BY <2>1 DEF SessionType
  <2> QED
    BY <1>2, <2>2, <2>3 DEF Transactional
<1>3. CASE c.op = "setAutoCommit"
  <2>1. r = [(IF c.v THEN [s EXCEPT !.inTransaction = FALSE, !.work = 0] ELSE s) EXCEPT !.autocommit = c.v]
    BY <1>3 DEF Perform, Ended
  <2>2. c.v \in BOOLEAN /\ (c \in Committing => c.v = TRUE)
    BY <1>3, CommandKinds
  <2>3. CASE c.v = TRUE
    <3>1. r = [s EXCEPT !.inTransaction = FALSE, !.work = 0, !.autocommit = c.v]
      BY <2>1, <2>3
    <3>2. r \in SessionType
      BY <1>0, <2>2, <3>1 DEF SessionType
    <3>3. /\ r.inTransaction = FALSE /\ r.work = 0 /\ r.autocommit = c.v
          /\ r.isolation = s.isolation /\ r.database = s.database /\ r.limit = s.limit
      BY <3>1 DEF SessionType
    <3> QED
      BY <1>3, <2>3, <3>2, <3>3 DEF Transactional
  <2>4. CASE c.v = FALSE
    BY <1>0, <1>3, <2>1, <2>2, <2>4 DEF SessionType, Transactional
  <2> QED
    BY <2>2, <2>3, <2>4
<1>4. CASE c.op \in {"setTransactionIsolation", "setSchema", "limit", "select", "isValid"}
  <2>1. CASE c.op = "setTransactionIsolation"
    <3>1. r = [s EXCEPT !.isolation = c.v] /\ c.v \in Levels /\ c \notin Committing
      BY <2>1, CommandKinds DEF Perform
    <3> QED
      BY <2>1, <3>1 DEF SessionType, Transactional
  <2>2. CASE c.op = "setSchema"
    <3>1. r = [s EXCEPT !.database = c.v] /\ c.v \in Schemas /\ c \notin Committing
      BY <2>2, CommandKinds DEF Perform
    <3> QED
      BY <2>2, <3>1 DEF SessionType, Transactional
  <2>3. CASE c.op = "limit"
    <3>1. r = [s EXCEPT !.limit = c.v] /\ c.v \in Limits /\ c \notin Committing
      BY <2>3, CommandKinds DEF Perform
    <3> QED
      BY <2>3, <3>1 DEF SessionType, Transactional
  <2>4. CASE c.op \in {"select", "isValid"}
    <3>1. r = s /\ c \notin Committing
      BY <2>4, CommandKinds DEF Perform
    <3> QED
      BY <2>4, <3>1
  <2> QED
    BY <1>4, <2>1, <2>2, <2>3, <2>4
<1> QED
  BY <1>1, <1>2, <1>3, <1>4, CommandKinds

LEMMA ServeStep == ASSUME IInv, Serve PROVE IInv'
<1>1. PICK c \in Commands : c = Head(app.todo) /\ server' = Perform(server, c)
  BY FirstCommand DEF Serve, Busy
<1>2. /\ LifeTypeOK /\ app.pc = "sent" /\ alive /\ app.call \in Calls /\ app.ok = TRUE
      /\ app' = [app EXCEPT !.pc = "done"]
      /\ UNCHANGED <<conf, up, seenDown, losses, alive, cc, proto, lock, other, promised, wantsAutocommit, owed, fault>>
  BY DEF Serve, envVars, IInv, CallInPlace, Working, Busy, Recovering, Reconnecting, LifeTypeOK, ThreadType
<1>3. /\ app' \in ThreadType /\ app'.pc = "done" /\ app'.call = app.call /\ app'.todo = app.todo
      /\ app'.ok = app.ok
  BY <1>2, CallGoesOn DEF Working
<1>4. c.op = "update" => app.call.op = "update"
  BY <1>1, <1>2, FirstCommand, LimitKinds DEF Busy
<1>5. /\ server' \in SessionType
      /\ Transactional(server') /\ (server'.work > 0 => server'.inTransaction)
      /\ c \in Committing => server'.work = 0
      /\ server'.autocommit = IF c.op = "setAutoCommit" THEN c.v ELSE server.autocommit
      /\ server'.isolation = IF c.op = "setTransactionIsolation" THEN c.v ELSE server.isolation
      /\ server'.database = IF c.op = "setSchema" THEN c.v ELSE server.database
      /\ server'.limit = IF c.op = "limit" THEN c.v ELSE server.limit
      /\ c.op \in {"setTransactionIsolation", "setSchema", "isValid"} => server'.inTransaction = server.inTransaction
      /\ c.op = "limit" => server'.work = server.work
  <2>1. c.op = "update" => server.work < MaxWork
    BY <1>2, <1>4 DEF IInv, CallInPlace
  <2>2. server \in SessionType /\ Transactional(server) /\ (server.work > 0 => server.inTransaction)
    BY <1>2 DEF IInv, BeliefInPlace, LifeTypeOK
  <2> QED
    BY <1>1, <2>1, <2>2, PerformKeeps
<1>6. /\ proto.database = server.database /\ (server.inTransaction => proto.inTransaction)
      /\ (server.inTransaction => cc.inTransaction)
      /\ conf.autoReconnect \/ (/\ proto.autocommit = server.autocommit /\ proto.isolation = server.isolation
                                /\ proto.maxRows = server.limit /\ server.autocommit = wantsAutocommit)
  BY <1>2 DEF IInv, BeliefInPlace, Agree, Believed, Noticed, Granted, Answered
<1>7. ~leaked'
  <2>1. ~leaked /\ ~(c.op = "update" /\ Autocommitted(server) /\ ~wantsAutocommit /\ ~conf.autoReconnect)
    BY <1>6 DEF IInv, WorkWaitsForCommit, Autocommitted
  <2>2. leaked' = (leaked \/ (c.op = "update" /\ Autocommitted(server) /\ ~wantsAutocommit /\ ~conf.autoReconnect))
    BY <1>1 DEF Serve
  <2> QED
    BY <2>1, <2>2, Zenon
<1>8. LifeTypeOK'
  <2>1. leaked' \in BOOLEAN
    BY SMT DEF Serve
  <2> QED
    BY <1>2, <1>3, <1>5, <2>1 DEF LifeTypeOK
<1>9. CallInPlace'
  <2>1. Len(app.todo) = 2 => c.op = "limit"
    <3>1. app.pc \in Busy
      BY <1>2 DEF Busy
    <3>2. Len(app.todo) = 2 => \E m \in Limits : c = Limit(m)
      BY ONLY <1>1, <3>1, FirstCommand, IInv
    <3> QED
      BY <3>2, LimitKinds
  <2> QED
    BY <1>2, <1>3, <1>5, <2>1 DEF IInv, CallInPlace, Busy, Working
<1>10. MutexInPlace' /\ HandleInPlace'
  BY <1>2, <1>3 DEF IInv, MutexInPlace, HandleInPlace, Busy, Unconnected, Recovering, Reconnecting
<1>11. BeliefInPlace'
  <2>1. /\ Answered' /\ Believed' = AfterAnswer(c)'
        /\ Noticed' = IF c.op # "setSchema" THEN server'.inTransaction ELSE cc.inTransaction
        /\ Granted' = IF c.op = "setAutoCommit" THEN c.v ELSE wantsAutocommit
        /\ Head(app'.todo) = c
    BY <1>1, <1>2, <1>3 DEF Answered, Believed, Noticed, Granted
  <2>2. Agree(AfterAnswer(c), server)'
    <3>1. proto \in ProtocolType /\ proto' = proto
      BY <1>2 DEF LifeTypeOK
    <3>2. CASE c.op \in {"setTransactionIsolation", "setSchema", "isValid"}
      BY <1>2, <1>5, <1>6, <3>1, <3>2 DEF AfterAnswer, Agree, ProtocolType
    <3>3. CASE c.op = "limit"
      BY <1>2, <1>5, <1>6, <3>1, <3>3 DEF AfterAnswer, ReadStatus, Agree, ProtocolType
    <3>4. CASE c.op \notin {"setTransactionIsolation", "setSchema", "isValid", "limit"}
      BY <1>2, <1>5, <1>6, <3>1, <3>4 DEF AfterAnswer, ReadStatus, Agree, ProtocolType
    <3> QED
      BY <3>2, <3>3, <3>4
  <2>3. Agree(Believed, server)'
    BY <2>1, <2>2 DEF Agree
  <2>4. Transactional(server)' /\ Transactional(proto)' /\ (server'.work > 0 => server'.inTransaction)
        /\ cc'.database = proto'.database
    BY <1>2, <1>5 DEF IInv, BeliefInPlace, Transactional
  <2>5. server'.inTransaction => Noticed'
    BY <1>5, <1>6, <2>1
  <2>6. conf'.autoReconnect \/ server'.autocommit = Granted'
    BY <1>2, <1>5, <1>6, <2>1
  <2> QED
    BY <1>3, <1>5, <2>1, <2>3, <2>4, <2>5, <2>6 DEF BeliefInPlace, Unconnected
<1>12. WorkInPlace'
  BY <1>2, <1>3 DEF IInv, WorkInPlace, Recovering, Reconnecting
<1>13. HostsInPlace' /\ StatementsHaveAHandle' /\ ReachableIsReached' /\ WorkWaitsForCommit'
  BY <1>2, <1>3, <1>7 DEF IInv, HostsInPlace, StatementsHaveAHandle, ReachableIsReached, WorkWaitsForCommit
<1> QED
  BY <1>8, <1>9, <1>10, <1>11, <1>12, <1>13 DEF IInv

LEMMA CancelStep == ASSUME IInv, Cancel PROVE IInv'
<1>1. /\ LifeTypeOK /\ app.pc = "sent" /\ alive /\ app.call \in Calls
      /\ app' = [app EXCEPT !.pc = "done", !.ok = FALSE]
      /\ UNCHANGED <<conf, up, seenDown, losses, server, alive, cc, proto, lock, other, promised, wantsAutocommit,
                     owed, leaked, fault>>
  BY DEF Cancel, envVars, IInv, CallInPlace, Working
<1>2. /\ app' \in ThreadType /\ app'.pc = "done" /\ app'.call = app.call /\ app'.todo = app.todo
      /\ app'.ok = FALSE
  BY <1>1 DEF LifeTypeOK, ThreadType, Working
<1>3. LifeTypeOK'
  BY <1>1, <1>2 DEF LifeTypeOK
<1>4. CallInPlace'
  BY <1>1, <1>2 DEF IInv, CallInPlace, Busy, Working
<1>5. MutexInPlace' /\ HandleInPlace'
  BY <1>1, <1>2 DEF IInv, MutexInPlace, HandleInPlace, Busy, Unconnected, Recovering, Reconnecting
<1>6. BeliefInPlace' /\ WorkInPlace'
  BY <1>1, <1>2 DEF IInv, BeliefInPlace, WorkInPlace, Believed, Noticed, Granted, Answered, Agree,
                    Transactional, Unconnected, Recovering, Reconnecting
<1>7. HostsInPlace' /\ StatementsHaveAHandle' /\ ReachableIsReached' /\ WorkWaitsForCommit'
  BY <1>1, <1>2 DEF IInv, HostsInPlace, StatementsHaveAHandle, ReachableIsReached, WorkWaitsForCommit
<1> QED
  BY <1>3, <1>4, <1>5, <1>6, <1>7 DEF IInv

(* The protocol after an answer: what it believed, or what the session is.      *)
LEMMA AnswerKeeps ==
  ASSUME LifeTypeOK, NEW c \in Commands, NEW p, p = AfterAnswer(c),
         Transactional(proto), Transactional(server)
  PROVE  /\ p \in ProtocolType /\ Transactional(p)
         /\ p.connected = proto.connected /\ p.explicitClosed = proto.explicitClosed
         /\ c.op # "setSchema" => p.database = proto.database
<1>1. proto \in ProtocolType /\ server.autocommit \in BOOLEAN /\ server.inTransaction \in BOOLEAN
  BY DEF LifeTypeOK, SessionType
<1>2. CASE c.op = "setTransactionIsolation"
  <2>1. p = [proto EXCEPT !.isolation = c.v] /\ c.v \in Levels
    BY <1>2, CommandKinds DEF AfterAnswer
  <2> QED
    BY <1>1, <2>1 DEF ProtocolType, Transactional
<1>3. CASE c.op = "setSchema"
  <2>1. p = [proto EXCEPT !.database = c.v] /\ c.v \in Schemas
    BY <1>3, CommandKinds DEF AfterAnswer
  <2> QED
    BY <1>1, <1>3, <2>1 DEF ProtocolType, Transactional
<1>4. CASE c.op = "limit"
  <2>1. /\ p = [[proto EXCEPT !.autocommit = server.autocommit, !.inTransaction = server.inTransaction]
                 EXCEPT !.maxRows = c.v]
        /\ c.v \in Limits
    BY <1>4, CommandKinds DEF AfterAnswer, ReadStatus
  <2> QED
    BY <1>1, <2>1 DEF ProtocolType, Transactional
<1>5. CASE c.op = "isValid"
  BY <1>1, <1>5 DEF AfterAnswer
<1>6. CASE c.op \notin {"setTransactionIsolation", "setSchema", "isValid", "limit"}
  <2>1. p = [proto EXCEPT !.autocommit = server.autocommit, !.inTransaction = server.inTransaction]
    BY <1>6 DEF AfterAnswer, ReadStatus
  <2> QED
    BY <1>1, <2>1 DEF ProtocolType, Transactional
<1> QED
  BY <1>2, <1>3, <1>4, <1>5, <1>6

(* An answer is read: what was believed in advance is believed now.             *)
LEMMA ReadAnswerStep ==
  ASSUME IInv, app.pc = "done", cc.socket = "open", alive, app.ok, NEW c \in Commands, c = Head(app.todo),
         proto' = AfterAnswer(c),
         cc' = IF c.op = "setSchema" THEN [cc EXCEPT !.database = server.database]
               ELSE [cc EXCEPT !.inTransaction = server.inTransaction],
         IF Len(app.todo) > 1
         THEN app' = [app EXCEPT !.pc = "send", !.todo = Tail(@)] /\ UNCHANGED <<lock, promised, wantsAutocommit, owed>>
         ELSE Returns(app.call) /\ Release /\ UNCHANGED owed,
         UNCHANGED <<conf, up, seenDown, losses, server, alive, other, leaked, fault>>
  PROVE  IInv'
<1>1. /\ LifeTypeOK /\ app.call \in Calls /\ Answered /\ Believed = AfterAnswer(c) /\ ~owed /\ ~promised
      /\ app.pc \in Busy /\ lock = "app" /\ proto' = Believed
  BY DEF IInv, CallInPlace, MutexInPlace, WorkInPlace, Working, Answered, Believed, Busy, Recovering, Reconnecting
<1>2. /\ proto' \in ProtocolType /\ Transactional(proto')
      /\ proto'.connected = proto.connected /\ proto'.explicitClosed = proto.explicitClosed
      /\ c.op # "setSchema" => proto'.database = proto.database
  BY <1>1, AnswerKeeps DEF IInv, BeliefInPlace
<1>3. /\ proto'.database = server.database /\ (server.inTransaction => proto'.inTransaction)
      /\ conf.autoReconnect \/ (/\ proto'.autocommit = server.autocommit /\ proto'.isolation = server.isolation
                                /\ proto'.maxRows = server.limit)
  BY <1>1 DEF IInv, BeliefInPlace, Agree
<1>4. cc' \in HandleType /\ cc'.socket = "open" /\ cc'.database = proto'.database
      /\ (server.inTransaction => cc'.inTransaction)
  <2>1. CASE c.op = "setSchema"
    <3>1. cc' = [cc EXCEPT !.database = server.database] /\ server.database \in Schemas
      BY <1>1, <2>1 DEF LifeTypeOK, SessionType
    <3>2. server.inTransaction => cc.inTransaction
      BY <1>1, <2>1 DEF IInv, BeliefInPlace, Noticed
    <3> QED
      BY <1>1, <1>3, <3>1, <3>2 DEF LifeTypeOK, HandleType
  <2>2. CASE c.op # "setSchema"
    <3>1. cc' = [cc EXCEPT !.inTransaction = server.inTransaction] /\ server.inTransaction \in BOOLEAN
      BY <1>1, <2>2 DEF LifeTypeOK, SessionType
    <3>2. cc' \in HandleType /\ cc'.socket = cc.socket /\ cc'.database = cc.database /\ cc'.inTransaction = server.inTransaction
      BY <1>1, <3>1 DEF LifeTypeOK, HandleType
    <3> QED
      BY <1>2, <2>2, <3>2 DEF IInv, BeliefInPlace
  <2> QED
    BY <2>1, <2>2
<1>5. CASE Len(app.todo) > 1
  <2>0. PICK m \in Limits : c = Limit(m) /\ Len(app.todo) = 2 /\ Tail(app.todo) = <<app.call>>
    <3>1. \/ Len(app.todo) = 1
          \/ \E m \in Limits : /\ Head(app.todo) = Limit(m) /\ app.todo = <<Limit(m), app.call>>
                               /\ Len(app.todo) = 2 /\ Tail(app.todo) = <<app.call>>
                               /\ app.call \in StatementCalls
      BY <1>1, FirstCommand, Zenon
    <3>2. Len(app.todo) # 1
      <4>1. ASSUME NEW n, n > 1, n = 1 PROVE FALSE
        BY ONLY <4>1
      <4> QED
        BY <1>5, <4>1, Zenon
    <3> QED
      BY <3>1, <3>2, Zenon
  <2>1. app' = [app EXCEPT !.pc = "send", !.todo = <<app.call>>] /\ UNCHANGED <<lock, promised, wantsAutocommit, owed>>
    BY <1>5, <2>0
  <2>2. c.op = "limit"
    BY <2>0, LimitKinds
  <2>3. <<app.call>> \in UNION {[1..n -> Commands] : n \in 0..2}
    BY <1>1, TodoKinds, CallKinds
  <2>4. /\ app' \in ThreadType /\ app'.pc = "send" /\ app'.call = app.call /\ app'.todo = <<app.call>>
        /\ app'.ok = TRUE
    BY <1>1, <2>1, <2>3 DEF LifeTypeOK, ThreadType, Working
  <2>5. LifeTypeOK'
    BY <1>1, <1>2, <1>4, <2>1, <2>4 DEF LifeTypeOK
  <2>6. CallInPlace'
    BY <1>1, <2>0, <2>4 DEF IInv, CallInPlace, Busy, Working, Recovering, Reconnecting
  <2>7. MutexInPlace' /\ HandleInPlace'
    BY <1>1, <1>2, <1>4, <2>1, <2>4 DEF IInv, MutexInPlace, HandleInPlace, Busy, Unconnected, Recovering, Reconnecting
  <2>8. BeliefInPlace'
    <3>1. conf.autoReconnect \/ server.autocommit = wantsAutocommit
      BY <1>1, <2>2 DEF IInv, BeliefInPlace, Granted
    <3>2. ~Answered' /\ Believed' = proto' /\ Noticed' = cc'.inTransaction /\ Granted' = wantsAutocommit
      BY <2>1, <2>4 DEF Answered, Believed, Noticed, Granted
    <3> QED
      BY <1>2, <1>3, <1>4, <2>4, <3>1, <3>2 DEF IInv, BeliefInPlace, Transactional, Agree, Unconnected
  <2>9. WorkInPlace'
    BY <1>1, <2>1 DEF WorkInPlace
  <2>10. HostsInPlace' /\ StatementsHaveAHandle' /\ ReachableIsReached' /\ WorkWaitsForCommit'
    BY <2>4 DEF IInv, HostsInPlace, StatementsHaveAHandle, ReachableIsReached, WorkWaitsForCommit
  <2> QED
    BY <2>5, <2>6, <2>7, <2>8, <2>9, <2>10 DEF IInv
<1>6. CASE ~(Len(app.todo) > 1)
  <2>1. c = app.call /\ Returns(c) /\ lock' = "free" /\ owed' = owed
    BY <1>1, <1>6, FirstCommand DEF Release
  <2>2. /\ app' \in ThreadType /\ app'.pc = "idle" /\ app'.call = None /\ app'.todo = <<>> /\ app'.ok = TRUE
        /\ promised' \in BOOLEAN /\ (promised' <=> c \in Committing)
        /\ wantsAutocommit' \in BOOLEAN
        /\ wantsAutocommit' = IF c.op = "setAutoCommit" THEN c.v ELSE wantsAutocommit
    BY <1>1, <2>1, CallReturns
  <2>3. LifeTypeOK'
    BY <1>1, <1>2, <1>4, <2>1, <2>2 DEF LifeTypeOK
  <2>4. CallInPlace'
    BY <2>2 DEF CallInPlace, Busy, Working, None, Call
  <2>5. MutexInPlace' /\ HandleInPlace'
    BY <1>1, <1>2, <1>4, <2>1, <2>2 DEF IInv, MutexInPlace, HandleInPlace, Busy, Unconnected, Recovering, Reconnecting
  <2>6. BeliefInPlace'
    <3>1. conf.autoReconnect \/ server.autocommit = wantsAutocommit'
      BY <1>1, <2>2 DEF IInv, BeliefInPlace, Granted
    <3>2. ~Answered' /\ Believed' = proto' /\ Noticed' = cc'.inTransaction /\ Granted' = wantsAutocommit'
      BY <2>2 DEF Answered, Believed, Noticed, Granted
    <3> QED
      BY <1>2, <1>3, <1>4, <2>2, <3>1, <3>2 DEF IInv, BeliefInPlace, Transactional, Agree, Unconnected
  <2>7. WorkInPlace'
    BY <1>1, <2>1, <2>2 DEF WorkInPlace, IInv, BeliefInPlace
  <2>8. HostsInPlace' /\ StatementsHaveAHandle' /\ ReachableIsReached' /\ WorkWaitsForCommit'
    BY <2>2 DEF IInv, HostsInPlace, StatementsHaveAHandle, ReachableIsReached, WorkWaitsForCommit
  <2> QED
    BY <2>3, <2>4, <2>5, <2>6, <2>7, <2>8 DEF IInv
<1> QED
  BY <1>5, <1>6

LEMMA ReadStep == ASSUME IInv, Read PROVE IInv'
<1>1. /\ LifeTypeOK /\ app.pc \in Working /\ app.pc \in Busy /\ app.pc \notin Unconnected
      /\ app.call \in Calls /\ ~promised /\ lock = "app"
      /\ UNCHANGED <<conf, up, seenDown, losses, server, alive, other, leaked>>
  BY DEF Read, envVars, IInv, CallInPlace, MutexInPlace, WorkInPlace, Busy, Working, Unconnected
<1>2. CASE cc.socket = "null" /\ Crashes(app.call) /\ Release /\ UNCHANGED <<cc, proto>>
  <2>1. /\ app' \in ThreadType /\ app'.pc = "crashed" /\ app'.call = None /\ app'.todo = <<>>
        /\ fault' = app.call /\ promised' = promised /\ owed' = owed /\ wantsAutocommit' = wantsAutocommit
        /\ lock' = IF lock = "app" THEN "free" ELSE lock
    BY <1>1, <1>2, CallCrashes DEF Release
  <2>2. LifeTypeOK'
    BY <1>1, <1>2, <2>1 DEF LifeTypeOK
  <2>3. app.call \in StatementCalls => other \in {"aborting", "aborted"} \/ conf.autoReconnect
    BY <1>1, <1>2, HandleGone
  <2> QED
    BY <1>1, <1>2, <2>1, <2>2, <2>3, CrashEnds
<1>3. CASE cc.socket = "open" /\ ~alive /\ Lost(TRUE) /\ UNCHANGED <<proto, fault>>
  BY <1>1, <1>3, LostStep
<1>4. CASE ~app.ok /\ Throws(app.call) /\ Release /\ UNCHANGED <<cc, proto, fault>>
  <2>1. /\ app' \in ThreadType /\ app'.pc = "idle" /\ app'.call = None /\ app'.todo = <<>> /\ app'.ok = TRUE
        /\ promised' = FALSE /\ owed' = FALSE /\ wantsAutocommit' = wantsAutocommit
        /\ lock' = IF lock = "app" THEN "free" ELSE lock
    BY <1>1, <1>4, CallThrows DEF Release
  <2>2. LifeTypeOK' /\ ~Answered
    BY <1>1, <1>4, <2>1 DEF LifeTypeOK, Answered
  <2> QED
    BY <1>1, <1>4, <2>1, <2>2, ThrowEnds
<1>5. CASE /\ cc.socket = "open" /\ alive /\ app.pc = "done"
           /\ app.ok /\ proto' = AfterAnswer(Head(app.todo))
           /\ cc' = IF Head(app.todo).op = "setSchema" THEN [cc EXCEPT !.database = server.database]
                    ELSE [cc EXCEPT !.inTransaction = server.inTransaction]
           /\ IF Len(app.todo) > 1
              THEN app' = [app EXCEPT !.pc = "send", !.todo = Tail(@)]
                   /\ UNCHANGED <<lock, promised, wantsAutocommit, owed>>
              ELSE Returns(app.call) /\ Release /\ UNCHANGED owed
           /\ UNCHANGED fault
  <2>1. Head(app.todo) \in Commands
    BY <1>1, FirstCommand
  <2> QED
    BY <1>1, <1>5, <2>1, ReadAnswerStep
<1> QED
  BY <1>2, <1>3, <1>4, <1>5 DEF Read

-----------------------------------------------------------------------------
(* Connecting, and connecting again                                             *)

LEMMA NewConnection ==
  ASSUME LifeTypeOK, NEW h, Connected(h), conf' = conf
  PROVE  /\ h \in HostSet /\ h \in up /\ alive' = TRUE
         /\ server' \in SessionType /\ cc' \in HandleType /\ proto' \in ProtocolType
         /\ server'.autocommit = conf.autocommit /\ server'.inTransaction = FALSE /\ server'.isolation = "none"
         /\ server'.database = proto.database /\ server'.limit = 0 /\ server'.work = 0
         /\ cc'.socket = "open" /\ cc'.inTransaction = FALSE /\ cc'.database = proto.database
         /\ proto'.connected = TRUE /\ proto'.explicitClosed = proto.explicitClosed
         /\ proto'.autocommit = conf.autocommit /\ proto'.inTransaction = FALSE
         /\ proto'.isolation = proto.isolation /\ proto'.database = proto.database /\ proto'.maxRows = proto.maxRows
<1> DEFINE s == PostConnectionQueries(NewSession(proto.database))
<1>1. /\ h \in up /\ alive' = TRUE /\ server' = s /\ cc' = OpenHandle(proto.database)
      /\ proto' = [ReadStatus(s) EXCEPT !.connected = TRUE, !.currentHost = h]
  BY DEF Connected, SchemaOfNewSession
<1>2. conf.autocommit \in BOOLEAN /\ proto.database \in Schemas /\ h \in HostSet /\ proto \in ProtocolType
  BY <1>1 DEF LifeTypeOK, ConfType, ProtocolType
<1>3. /\ s \in SessionType /\ s.autocommit = conf.autocommit /\ s.inTransaction = FALSE /\ s.isolation = "none"
      /\ s.database = proto.database /\ s.limit = 0 /\ s.work = 0
  <2> DEFINE n == NewSession(proto.database)
  <2>1. /\ n \in SessionType /\ n.inTransaction = FALSE /\ n.isolation = "none"
        /\ n.database = proto.database /\ n.limit = 0 /\ n.work = 0
    BY <1>2, ConnectionLifeAssumption DEF NewSession, SessionType, Levels, Limits
  <2>2. s = [n EXCEPT !.autocommit = conf.autocommit]
    BY DEF PostConnectionQueries
  <2> HIDE DEF n, s
  <2> QED
    BY <1>2, <2>1, <2>2 DEF SessionType
<1> HIDE DEF s
<1>4. cc' \in HandleType /\ cc'.socket = "open" /\ cc'.inTransaction = FALSE /\ cc'.database = proto.database
  BY <1>1, <1>2 DEF OpenHandle, HandleType
<1>5. PICK a \in BOOLEAN : a = s.autocommit /\ a = conf.autocommit
  BY <1>2, <1>3
<1>6. proto' = [[proto EXCEPT !.autocommit = a, !.inTransaction = FALSE] EXCEPT !.connected = TRUE, !.currentHost = h]
  BY <1>1, <1>3, <1>5 DEF ReadStatus
<1>7. /\ proto' \in ProtocolType /\ proto'.connected = TRUE /\ proto'.explicitClosed = proto.explicitClosed
      /\ proto'.autocommit = a /\ proto'.inTransaction = FALSE
      /\ proto'.isolation = proto.isolation /\ proto'.database = proto.database /\ proto'.maxRows = proto.maxRows
  BY <1>2, <1>6 DEF ProtocolType
<1> QED
  BY <1>1, <1>2, <1>3, <1>4, <1>5, <1>7

LEMMA HandleIoExceptionStep == ASSUME IInv, HandleIoException PROVE IInv'
<1>1. /\ LifeTypeOK /\ app.pc = "failed" /\ app.call \in Calls /\ ~promised /\ lock # "app" /\ ~Answered /\ ~alive
      /\ UNCHANGED <<conf, up, seenDown, losses, server, alive, cc, lock, other, leaked, fault>>
  BY DEF HandleIoException, envVars, IInv, CallInPlace, MutexInPlace, HandleInPlace, WorkInPlace, Answered, Busy,
         Working, Recovering, Reconnecting
<1>2. CASE conf.autoReconnect /\ ~proto.explicitClosed
  <2>1. PICK loc \in {"reclose", "recreate"} :
          app' = [app EXCEPT !.pc = loc] /\ UNCHANGED <<proto, promised, wantsAutocommit, owed>>
    BY <1>2 DEF HandleIoException
  <2>2. /\ app' \in ThreadType /\ app'.pc = loc /\ app'.call = app.call /\ app'.todo = app.todo
        /\ app'.ok = app.ok
    BY <1>1, <2>1, CallGoesOn DEF Working
  <2>3. LifeTypeOK'
    BY <1>1, <2>1, <2>2 DEF LifeTypeOK
  <2>4. CallInPlace' /\ MutexInPlace' /\ HandleInPlace'
    BY <1>1, <1>2, <2>1, <2>2 DEF IInv, CallInPlace, MutexInPlace, HandleInPlace, Busy, Working, Unconnected,
                                  Recovering, Reconnecting
  <2>5. BeliefInPlace' /\ WorkInPlace'
    BY <1>1, <2>1, <2>2 DEF IInv, BeliefInPlace, WorkInPlace, Transactional, Unconnected, Recovering, Reconnecting
  <2>6. HostsInPlace' /\ StatementsHaveAHandle' /\ ReachableIsReached' /\ WorkWaitsForCommit'
    BY <1>1, <2>1, <2>2 DEF IInv, HostsInPlace, StatementsHaveAHandle, ReachableIsReached, WorkWaitsForCommit
  <2> QED
    BY <2>3, <2>4, <2>5, <2>6 DEF IInv
<1>3. CASE ~(conf.autoReconnect /\ ~proto.explicitClosed)
  <2>1. proto' = [proto EXCEPT !.connected = FALSE] /\ Throws(app.call)
    BY <1>3 DEF HandleIoException, Unreconnected
  <2>2. /\ proto' \in ProtocolType /\ proto'.connected = FALSE
        /\ proto'.explicitClosed = proto.explicitClosed /\ proto'.autocommit = proto.autocommit
        /\ proto'.inTransaction = proto.inTransaction /\ proto'.isolation = proto.isolation
        /\ proto'.database = proto.database /\ proto'.maxRows = proto.maxRows
    BY <1>1, <2>1 DEF LifeTypeOK, ProtocolType
  <2>3. /\ app' \in ThreadType /\ app'.pc = "idle" /\ app'.call = None /\ app'.todo = <<>> /\ app'.ok = TRUE
        /\ promised' = FALSE /\ owed' = FALSE /\ wantsAutocommit' = wantsAutocommit
    BY <1>1, <2>1, CallThrows
  <2>4. LifeTypeOK'
    BY <1>1, <2>2, <2>3 DEF LifeTypeOK
  <2> QED
    BY <1>1, <2>2, <2>3, <2>4, ThrowEnds DEF Unconnected
<1> QED
  BY <1>2, <1>3

LEMMA RecloseStep == ASSUME IInv, Reclose PROVE IInv'
<1>1. /\ LifeTypeOK /\ app.pc \in {"reclose", "resocket"} /\ ~alive /\ conf.autoReconnect
      /\ UNCHANGED <<conf, up, seenDown, losses, server, alive, lock, other, promised, wantsAutocommit, owed, leaked, fault>>
  BY DEF Reclose, envVars, IInv, HandleInPlace, Recovering, Reconnecting
<1>2. PICK loc \in {"resocket", "recreate"} : app' = [app EXCEPT !.pc = loc]
  BY DEF Reclose
<1>3. /\ app' \in ThreadType /\ app'.pc = loc /\ app'.call = app.call /\ app'.todo = app.todo
      /\ app'.ok = app.ok
  BY <1>1, <1>2, CallGoesOn DEF Working
<1>4. /\ proto' \in ProtocolType
      /\ proto'.explicitClosed = proto.explicitClosed /\ proto'.autocommit = proto.autocommit
      /\ proto'.inTransaction = proto.inTransaction /\ proto'.database = proto.database
  <2>1. proto' = proto \/ proto' = [proto EXCEPT !.connected = FALSE]
    BY DEF Reclose
  <2> QED
    BY <1>1, <2>1 DEF LifeTypeOK, ProtocolType
<1>5. cc' \in HandleType /\ cc'.inTransaction = cc.inTransaction /\ cc'.database = cc.database
  <2>1. cc' = cc \/ cc' = [cc EXCEPT !.socket = "null"]
    BY DEF Reclose
  <2> QED
    BY <1>1, <2>1 DEF LifeTypeOK, HandleType
<1>6. LifeTypeOK'
  BY <1>1, <1>3, <1>4, <1>5 DEF LifeTypeOK
<1>7. CallInPlace' /\ MutexInPlace' /\ HandleInPlace'
  BY <1>1, <1>3, <1>4 DEF IInv, CallInPlace, MutexInPlace, HandleInPlace, Busy, Working, Unconnected,
                          Recovering, Reconnecting
<1>8. BeliefInPlace' /\ WorkInPlace'
  BY <1>1, <1>3, <1>4, <1>5 DEF IInv, BeliefInPlace, WorkInPlace, Transactional, Unconnected, Recovering, Reconnecting
<1>9. HostsInPlace' /\ StatementsHaveAHandle' /\ ReachableIsReached' /\ WorkWaitsForCommit'
  BY <1>1, <1>3 DEF IInv, HostsInPlace, StatementsHaveAHandle, ReachableIsReached, WorkWaitsForCommit
<1> QED
  BY <1>6, <1>7, <1>8, <1>9 DEF IInv

LEMMA RecreateStep == ASSUME IInv, Recreate PROVE IInv'
<1>1. /\ LifeTypeOK /\ app.pc = "recreate" /\ app.call \in Calls /\ ~promised /\ ~alive /\ conf.autoReconnect
      /\ lock # "app" /\ ~Answered
      /\ UNCHANGED <<conf, up, seenDown, losses, lock, other, leaked, fault>>
  BY DEF Recreate, envVars, IInv, CallInPlace, MutexInPlace, HandleInPlace, WorkInPlace, Answered, Busy, Working,
         Recovering, Reconnecting
<1>2. CASE /\ Connected(proto.currentHost) /\ app' = [app EXCEPT !.pc = "restore"]
           /\ UNCHANGED <<promised, wantsAutocommit, owed>>
  <2>1. /\ app' \in ThreadType /\ app'.pc = "restore" /\ app'.call = app.call /\ app'.todo = app.todo
        /\ app'.ok = app.ok
    BY <1>1, <1>2, CallGoesOn DEF Working
  <2>2. /\ alive' = TRUE
        /\ server' \in SessionType /\ cc' \in HandleType /\ proto' \in ProtocolType
        /\ server'.inTransaction = FALSE /\ server'.database = proto.database /\ server'.work = 0
        /\ cc'.socket = "open" /\ cc'.database = proto.database
        /\ proto'.explicitClosed = proto.explicitClosed /\ proto'.inTransaction = FALSE
        /\ proto'.database = proto.database
    BY <1>1, <1>2, NewConnection
  <2>3. LifeTypeOK'
    BY <1>1, <1>2, <2>1, <2>2 DEF LifeTypeOK
  <2>4. CallInPlace'
    <3>1. app.todo = <<>> /\ Len(app'.todo) = 0
      BY <1>1, <2>1 DEF IInv, CallInPlace, Busy
    <3> QED
      BY <1>1, <2>1, <3>1 DEF CallInPlace, Busy, Working, Recovering, Reconnecting
  <2>8. MutexInPlace' /\ HandleInPlace'
    BY <1>1, <2>1, <2>2 DEF IInv, MutexInPlace, HandleInPlace, Busy, Unconnected, Recovering, Reconnecting
  <2>5. BeliefInPlace'
    BY <1>1, <2>1, <2>2 DEF BeliefInPlace, Agree, Believed, Answered, Transactional, Unconnected
  <2>6. WorkInPlace'
    BY <1>1, <1>2, <2>1 DEF WorkInPlace, Recovering, Reconnecting
  <2>7. HostsInPlace' /\ StatementsHaveAHandle' /\ ReachableIsReached' /\ WorkWaitsForCommit'
    BY <1>1, <2>1 DEF IInv, HostsInPlace, StatementsHaveAHandle, ReachableIsReached, WorkWaitsForCommit
  <2> QED
    BY <2>3, <2>4, <2>5, <2>6, <2>7, <2>8 DEF IInv
<1>3. CASE proto' = [proto EXCEPT !.connected = FALSE] /\ Throws(app.call) /\ UNCHANGED <<server, alive, cc>>
  <2>1. /\ proto' \in ProtocolType /\ proto'.connected = FALSE
        /\ proto'.explicitClosed = proto.explicitClosed /\ proto'.autocommit = proto.autocommit
        /\ proto'.inTransaction = proto.inTransaction /\ proto'.isolation = proto.isolation
        /\ proto'.database = proto.database /\ proto'.maxRows = proto.maxRows
    BY <1>1, <1>3 DEF LifeTypeOK, ProtocolType
  <2>2. /\ app' \in ThreadType /\ app'.pc = "idle" /\ app'.call = None /\ app'.todo = <<>> /\ app'.ok = TRUE
        /\ promised' = FALSE /\ owed' = FALSE /\ wantsAutocommit' = wantsAutocommit
    BY <1>1, <1>3, CallThrows
  <2>3. LifeTypeOK'
    BY <1>1, <1>3, <2>1, <2>2 DEF LifeTypeOK
  <2> QED
    BY <1>1, <1>3, <2>1, <2>2, <2>3, ThrowEnds DEF Unconnected
<1> QED
  BY <1>2, <1>3 DEF Recreate

LEMMA ResetStateAfterFailoverStep == ASSUME IInv, ResetStateAfterFailover PROVE IInv'
<1>1. /\ LifeTypeOK /\ app.pc = "restore" /\ app.pc \in Working /\ app.call \in Calls /\ conf.autoReconnect
      /\ lock # "app" /\ ~Answered
      /\ UNCHANGED <<conf, up, seenDown, losses, alive, cc, proto, lock, other, leaked>>
  BY DEF ResetStateAfterFailover, envVars, IInv, CallInPlace, MutexInPlace, HandleInPlace, Answered, Busy, Working,
         Reconnecting
<1>2. CASE cc.socket = "null" /\ Crashes(app.call) /\ UNCHANGED server
  <2>1. /\ app' \in ThreadType /\ app'.pc = "crashed" /\ app'.call = None /\ app'.todo = <<>>
        /\ fault' = app.call /\ promised' = promised /\ owed' = owed /\ wantsAutocommit' = wantsAutocommit
    BY <1>1, <1>2, CallCrashes
  <2>2. LifeTypeOK'
    BY <1>1, <1>2, <2>1 DEF LifeTypeOK
  <2> QED
    BY <1>1, <1>2, <2>1, <2>2, CrashEnds
<1>3. CASE /\ server' = IF alive THEN [server EXCEPT !.isolation = proto.isolation] ELSE server
           /\ Throws(app.call) /\ UNCHANGED fault
  <2>1. /\ server' \in SessionType
        /\ server'.autocommit = server.autocommit /\ server'.inTransaction = server.inTransaction
        /\ server'.database = server.database /\ server'.limit = server.limit /\ server'.work = server.work
    BY <1>1, <1>3 DEF LifeTypeOK, SessionType, ProtocolType
  <2>2. /\ app' \in ThreadType /\ app'.pc = "idle" /\ app'.call = None /\ app'.todo = <<>> /\ app'.ok = TRUE
        /\ promised' = FALSE /\ owed' = FALSE /\ wantsAutocommit' = wantsAutocommit
    BY <1>1, <1>3, CallThrows
  <2>3. LifeTypeOK'
    BY <1>1, <1>3, <2>1, <2>2 DEF LifeTypeOK
  <2> QED
    BY <1>1, <1>3, <2>1, <2>2, <2>3, ThrowEnds DEF Unconnected
<1> QED
  BY <1>2, <1>3 DEF ResetStateAfterFailover

(* A list without its last element.                                             *)
LEMMA ButLast ==
  ASSUME NEW T, NEW q \in Seq(T), NEW n \in Nat, n = Len(q), n > 0
  PROVE  \E r \in Seq(T) :
           r = SubSeq(q, 1, n - 1) /\ Len(r) = n - 1 /\ (\A i \in 1..(n - 1) : r[i] = q[i]) /\ (r = <<>> <=> n = 1)
<1> DEFINE r == SubSeq(q, 1, n - 1)
<1>1. r \in Seq(T) /\ Len(r) = n - 1 /\ \A i \in 1..(n - 1) : r[i] = q[i]
  BY SubSeqProperties
<1> HIDE DEF r
<1>2. r = <<>> <=> Len(r) = 0
  BY <1>1, EmptySeq
<1>3. Len(r) = 0 <=> n = 1
  BY <1>1
<1> QED
  BY <1>1, <1>2, <1>3, Zenon DEF r

(* The next host of the URL is tried, from the back.                            *)
LEMMA ConnectWithoutProxyStep == ASSUME IInv, ConnectWithoutProxy PROVE IInv'
<1>1. /\ LifeTypeOK /\ app.pc = "new" /\ ~promised /\ ~alive /\ ~owed /\ other = "start" /\ app.todo = <<>> /\ app.ok
      /\ lock # "app"
      /\ UNCHANGED <<conf, up, seenDown, losses, lock, other, promised, wantsAutocommit, owed, leaked, fault>>
  BY DEF ConnectWithoutProxy, envVars, IInv, CallInPlace, MutexInPlace, HandleInPlace, BeliefInPlace, WorkInPlace,
         Busy, Unconnected, Recovering, Reconnecting
<1>2. PICK n \in Nat :
      /\ app.hosts \in Seq(HostSet) /\ n = Len(app.hosts) /\ n \in 1..Len(Hosts) /\ Len(Hosts) \in Nat
      /\ \A i \in 1..n : app.hosts[i] = Hosts[i]
      /\ \A i \in (n + 1)..Len(Hosts) : Hosts[i] \in seenDown
  <2>1. app.hosts \in Seq(HostSet) /\ Len(Hosts) \in Nat
    BY <1>1, ConnectionLifeAssumption DEF LifeTypeOK, ThreadType
  <2> QED
    BY <1>1, <2>1 DEF IInv, HostsInPlace
<1>3. PICK h \in HostSet : h = app.hosts[n] /\ h = Hosts[n]
  BY <1>2
<1>4. CASE Connected(h) /\ app' = [app EXCEPT !.pc = "idle", !.hosts = <<>>]
  <2>1. /\ app' \in ThreadType /\ app'.pc = "idle" /\ app'.call = app.call /\ app'.todo = <<>> /\ app'.ok = app.ok
    <3>1. <<>> \in Seq(HostSet)
      OBVIOUS
    <3> QED
      BY <1>1, <1>4, <3>1 DEF LifeTypeOK, ThreadType, Working
  <2>2. /\ alive' = TRUE
        /\ server' \in SessionType /\ cc' \in HandleType /\ proto' \in ProtocolType
        /\ server'.autocommit = conf.autocommit /\ server'.inTransaction = FALSE /\ server'.isolation = "none"
        /\ server'.database = proto.database /\ server'.limit = 0 /\ server'.work = 0
        /\ cc'.socket = "open" /\ cc'.database = proto.database
        /\ proto'.explicitClosed = proto.explicitClosed
        /\ proto'.autocommit = conf.autocommit /\ proto'.inTransaction = FALSE
        /\ proto'.isolation = proto.isolation /\ proto'.database = proto.database /\ proto'.maxRows = proto.maxRows
    BY <1>1, <1>4, NewConnection
  <2>3. LifeTypeOK'
    BY <1>1, <2>1, <2>2 DEF LifeTypeOK
  <2>4. CallInPlace'
    <3>1. Len(app'.todo) = 0
      BY <2>1
    <3> QED
      BY <1>1, <2>1, <3>1 DEF CallInPlace, Busy, Working
  <2>5. MutexInPlace' /\ HandleInPlace'
    BY <1>1, <2>1, <2>2 DEF IInv, MutexInPlace, HandleInPlace, Busy, Unconnected, Recovering, Reconnecting
  <2>6. BeliefInPlace'
    <3>1. wantsAutocommit = conf.autocommit /\ proto.isolation = "none" /\ proto.maxRows = 0
      BY <1>1 DEF IInv, BeliefInPlace, Unconnected
    <3> QED
      BY <1>1, <2>1, <2>2, <3>1 DEF BeliefInPlace, Agree, Believed, Noticed, Granted, Answered, Transactional, Unconnected
  <2>7. WorkInPlace'
    BY <1>1 DEF WorkInPlace
  <2>8. HostsInPlace' /\ StatementsHaveAHandle' /\ ReachableIsReached' /\ WorkWaitsForCommit'
    BY <1>1, <2>1 DEF IInv, HostsInPlace, StatementsHaveAHandle, ReachableIsReached, WorkWaitsForCommit
  <2> QED
    BY <2>3, <2>4, <2>5, <2>6, <2>7, <2>8 DEF IInv
<1>5. CASE /\ h \notin up
           /\ app' = [app EXCEPT !.hosts = HostsAfter(app.hosts),
                                 !.pc = IF HostsAfter(app.hosts) = <<>> THEN "refused" ELSE "new"]
           /\ UNCHANGED <<alive, server, cc, proto>>
  <2>1. PICK rest \in Seq(HostSet) :
          /\ rest = HostsAfter(app.hosts) /\ Len(rest) = n - 1 /\ (\A i \in 1..(n - 1) : rest[i] = app.hosts[i])
          /\ rest = <<>> <=> n = 1
    <3>1. n > 0 /\ HostsAfter(app.hosts) = SubSeq(app.hosts, 1, n - 1)
      BY <1>2 DEF HostsAfter
    <3>2. \E rest \in Seq(HostSet) :
            /\ rest = SubSeq(app.hosts, 1, n - 1) /\ Len(rest) = n - 1 /\ (\A i \in 1..(n - 1) : rest[i] = app.hosts[i])
            /\ rest = <<>> <=> n = 1
      <4>1. app.hosts \in Seq(HostSet) /\ n \in Nat /\ n = Len(app.hosts) /\ n > 0
        BY <1>2, <3>1
      <4> QED
        BY ONLY <4>1, ButLast, ZenonT(30)
    <3> QED
      BY ONLY <3>1, <3>2, Zenon
  <2>3. PICK loc \in {"new", "refused"} :
          app' = [app EXCEPT !.hosts = rest, !.pc = loc] /\ (loc = "refused" <=> n = 1)
    BY <1>5, <2>1
  <2>4. /\ app' \in ThreadType /\ app'.pc = loc /\ app'.call = app.call /\ app'.todo = <<>> /\ app'.ok = app.ok
        /\ app'.hosts = rest
    BY <1>1, <2>3 DEF LifeTypeOK, ThreadType, Working
  <2>5. LifeTypeOK'
    BY <1>1, <1>5, <2>4 DEF LifeTypeOK
  <2>6. CallInPlace'
    <3>1. Len(app'.todo) = 0
      BY <2>4
    <3> QED
      BY <1>1, <2>4, <3>1 DEF CallInPlace, Busy, Working
  <2>7. MutexInPlace' /\ HandleInPlace'
    BY <1>1, <1>5, <2>4 DEF IInv, MutexInPlace, HandleInPlace, Busy, Unconnected, Recovering, Reconnecting
  <2>8. BeliefInPlace' /\ WorkInPlace'
    BY <1>1, <1>5, <2>4 DEF IInv, BeliefInPlace, WorkInPlace, Transactional, Unconnected
  <2>9. h \in seenDown /\ up \cup seenDown = HostSet
    BY <1>1, <1>5 DEF IInv, HostsInPlace
  <2>10. HostsInPlace'
    <3>1. ASSUME loc = "new" PROVE n - 1 \in 1..Len(Hosts) /\ n - 1 + 1 = n /\ n \in Nat
      <4>1. n # 1 /\ n \in Nat /\ Len(Hosts) \in Nat /\ n \in 1..Len(Hosts)
        BY <1>2, <2>3, <3>1
      <4>2. ASSUME NEW m \in Nat, NEW k \in Nat, m # 1, m \in 1..k PROVE m - 1 \in 1..k /\ m - 1 + 1 = m
        BY ONLY <4>2
      <4> QED
        BY ONLY <4>1, <4>2
    <3>2. ASSUME NEW i \in n..Len(Hosts) PROVE Hosts[i] \in seenDown
      BY <1>2, <1>3, <2>9, <3>2
    <3>3. \A i \in 1..(n - 1) : rest[i] = Hosts[i]
      BY <1>2, <2>1
    <3> QED
      BY <1>1, <2>1, <2>4, <2>9, <3>1, <3>2, <3>3 DEF HostsInPlace
  <2>11. ReachableIsReached'
    <3>1. ASSUME n = 1, NEW i \in 1..Len(Hosts) PROVE Hosts[i] \in seenDown
      BY <1>2, <1>3, <2>9, <3>1
    <3>2. n = 1 => HostSet \subseteq seenDown
      BY <3>1 DEF HostSet
    <3> QED
      BY <1>1, <2>3, <2>4, <2>9, <3>2 DEF ReachableIsReached
  <2>12. StatementsHaveAHandle' /\ WorkWaitsForCommit'
    BY <1>1 DEF IInv, StatementsHaveAHandle, WorkWaitsForCommit
  <2> QED
    BY <2>5, <2>6, <2>7, <2>8, <2>10, <2>11, <2>12 DEF IInv
<1>6. \/ Connected(h) /\ app' = [app EXCEPT !.pc = "idle", !.hosts = <<>>]
      \/ /\ h \notin up
         /\ app' = [app EXCEPT !.hosts = HostsAfter(app.hosts),
                               !.pc = IF HostsAfter(app.hosts) = <<>> THEN "refused" ELSE "new"]
         /\ UNCHANGED <<alive, server, cc, proto>>
  BY <1>2, <1>3, Zenon DEF ConnectWithoutProxy
<1> QED
  BY <1>4, <1>5, <1>6

-----------------------------------------------------------------------------
(* The other thread, and the world                                              *)

(* The protocol object with one of its marks set.                               *)
LEMMA MarksOnly ==
  ASSUME proto \in ProtocolType,
         \/ proto' = proto
         \/ proto' = [proto EXCEPT !.connected = FALSE]
         \/ proto' = [proto EXCEPT !.explicitClosed = TRUE]
         \/ proto' = [proto EXCEPT !.explicitClosed = TRUE, !.connected = FALSE]
  PROVE  /\ proto' \in ProtocolType
         /\ proto'.connected => proto.connected
         /\ proto.explicitClosed => proto'.explicitClosed
         /\ proto'.autocommit = proto.autocommit /\ proto'.inTransaction = proto.inTransaction
         /\ proto'.isolation = proto.isolation /\ proto'.database = proto.database /\ proto'.maxRows = proto.maxRows
BY DEF ProtocolType

LEMMA CloseExplicitStep == ASSUME IInv, CloseExplicit PROVE IInv'
<1>1. /\ LifeTypeOK /\ proto \in ProtocolType /\ app.pc \notin Unconnected /\ other = "start" /\ other' = "closing"
      /\ proto' = [proto EXCEPT !.explicitClosed = TRUE]
      /\ UNCHANGED <<conf, up, seenDown, losses, server, alive, cc, lock, app, promised, wantsAutocommit, owed, leaked, fault>>
  BY DEF CloseExplicit, envVars, IInv, LifeTypeOK, Unconnected
<1>2. /\ proto' \in ProtocolType /\ proto'.explicitClosed = TRUE
      /\ proto'.autocommit = proto.autocommit /\ proto'.inTransaction = proto.inTransaction
      /\ proto'.isolation = proto.isolation /\ proto'.database = proto.database /\ proto'.maxRows = proto.maxRows
  BY <1>1, MarksOnly DEF ProtocolType
<1>3. LifeTypeOK'
  BY <1>1, <1>2 DEF LifeTypeOK
<1>4. CallInPlace' /\ BeliefInPlace' /\ WorkInPlace' /\ WorkWaitsForCommit'
  BY <1>1, <1>2, <1>3, AppStays
<1>5. MutexInPlace' /\ HandleInPlace'
  BY <1>1, <1>2 DEF IInv, MutexInPlace, HandleInPlace
<1>6. HostsInPlace' /\ StatementsHaveAHandle' /\ ReachableIsReached'
  BY <1>1 DEF IInv, HostsInPlace, StatementsHaveAHandle, ReachableIsReached
<1> QED
  BY <1>3, <1>4, <1>5, <1>6 DEF IInv

LEMMA CloseMarkStep == ASSUME IInv, CloseMark PROVE IInv'
<1>1. /\ LifeTypeOK /\ proto \in ProtocolType /\ app.pc \notin Busy /\ other = "closing" /\ other' = "socket"
      /\ proto' = [proto EXCEPT !.connected = FALSE]
      /\ UNCHANGED <<conf, up, seenDown, losses, server, alive, cc, lock, app, promised, wantsAutocommit, owed, leaked, fault>>
  BY DEF CloseMark, MarkedClosed, envVars, IInv, LifeTypeOK, MutexInPlace
<1>2. /\ proto' \in ProtocolType /\ proto'.connected = FALSE /\ proto'.explicitClosed = proto.explicitClosed
      /\ proto'.autocommit = proto.autocommit /\ proto'.inTransaction = proto.inTransaction
      /\ proto'.isolation = proto.isolation /\ proto'.database = proto.database /\ proto'.maxRows = proto.maxRows
  BY <1>1 DEF ProtocolType
<1>3. LifeTypeOK'
  BY <1>1, <1>2 DEF LifeTypeOK
<1>4. CallInPlace' /\ BeliefInPlace' /\ WorkInPlace' /\ WorkWaitsForCommit'
  BY <1>1, <1>2, <1>3, AppStays
<1>5. MutexInPlace' /\ HandleInPlace'
  BY <1>1, <1>2 DEF IInv, MutexInPlace, HandleInPlace
<1>6. HostsInPlace' /\ StatementsHaveAHandle' /\ ReachableIsReached'
  BY <1>1 DEF IInv, HostsInPlace, StatementsHaveAHandle, ReachableIsReached
<1> QED
  BY <1>3, <1>4, <1>5, <1>6 DEF IInv

LEMMA CloseSocketStep == ASSUME IInv, CloseSocket PROVE IInv'
<1>1. /\ LifeTypeOK /\ app.pc \notin Busy /\ other = "socket" /\ other' = "closed" /\ alive' = FALSE
      /\ cc' = [cc EXCEPT !.socket = "null"]
      /\ UNCHANGED <<conf, up, seenDown, losses, server, proto, lock, app, promised, wantsAutocommit, owed, leaked, fault>>
  BY DEF CloseSocket, envVars, IInv, MutexInPlace
<1>2. cc' \in HandleType /\ cc'.socket = "null" /\ cc'.inTransaction = cc.inTransaction /\ cc'.database = cc.database
  BY <1>1 DEF LifeTypeOK, HandleType
<1>3. LifeTypeOK'
  BY <1>1, <1>2 DEF LifeTypeOK
<1>4. CallInPlace' /\ BeliefInPlace' /\ WorkInPlace' /\ WorkWaitsForCommit'
  BY <1>1, <1>2, <1>3, AppStays
<1>5. MutexInPlace' /\ HandleInPlace'
  BY <1>1, <1>2 DEF IInv, MutexInPlace, HandleInPlace
<1>6. HostsInPlace' /\ StatementsHaveAHandle' /\ ReachableIsReached'
  BY <1>1 DEF IInv, HostsInPlace, StatementsHaveAHandle, ReachableIsReached
<1> QED
  BY <1>3, <1>4, <1>5, <1>6 DEF IInv

LEMMA AbortStep == ASSUME IInv, Abort PROVE IInv'
<1>1. /\ LifeTypeOK /\ proto \in ProtocolType /\ app.pc \notin Unconnected /\ other = "start" /\ other' = "aborting"
      /\ proto' = [proto EXCEPT !.explicitClosed = TRUE, !.connected = FALSE]
      /\ lock' = IF lock = "free" THEN "other" ELSE lock
      /\ UNCHANGED <<conf, up, seenDown, losses, server, alive, cc, app, promised, wantsAutocommit, owed, leaked, fault>>
  BY DEF Abort, envVars, IInv, LifeTypeOK, Unconnected
<1>2. /\ proto' \in ProtocolType /\ proto'.explicitClosed = TRUE /\ proto'.connected = FALSE
      /\ proto'.autocommit = proto.autocommit /\ proto'.inTransaction = proto.inTransaction
      /\ proto'.isolation = proto.isolation /\ proto'.database = proto.database /\ proto'.maxRows = proto.maxRows
  BY <1>1 DEF ProtocolType
<1>3. LifeTypeOK'
  BY <1>1, <1>2 DEF LifeTypeOK, Threads
<1>4. CallInPlace' /\ BeliefInPlace' /\ WorkInPlace' /\ WorkWaitsForCommit'
  BY <1>1, <1>2, <1>3, AppStays
<1>5. MutexInPlace' /\ HandleInPlace'
  BY <1>1, <1>2 DEF IInv, MutexInPlace, HandleInPlace
<1>6. HostsInPlace' /\ StatementsHaveAHandle' /\ ReachableIsReached'
  BY <1>1 DEF IInv, HostsInPlace, StatementsHaveAHandle, ReachableIsReached
<1> QED
  BY <1>3, <1>4, <1>5, <1>6 DEF IInv

LEMMA AbortSocketStep == ASSUME IInv, AbortSocket PROVE IInv'
<1>1. /\ LifeTypeOK /\ other = "aborting" /\ other' = "aborted" /\ alive' = FALSE
      /\ cc' = [cc EXCEPT !.socket = "null"]
      /\ lock' = IF lock = "other" THEN "free" ELSE lock
      /\ UNCHANGED <<conf, up, seenDown, losses, server, proto, app, promised, wantsAutocommit, owed, leaked, fault>>
  BY DEF AbortSocket, envVars, IInv
<1>2. cc' \in HandleType /\ cc'.socket = "null" /\ cc'.inTransaction = cc.inTransaction /\ cc'.database = cc.database
  BY <1>1 DEF LifeTypeOK, HandleType
<1>3. LifeTypeOK'
  BY <1>1, <1>2 DEF LifeTypeOK
<1>4. CallInPlace' /\ BeliefInPlace' /\ WorkInPlace' /\ WorkWaitsForCommit'
  BY <1>1, <1>2, <1>3, AppStays
<1>5. MutexInPlace' /\ HandleInPlace'
  BY <1>1, <1>2 DEF IInv, MutexInPlace, HandleInPlace
<1>6. HostsInPlace' /\ StatementsHaveAHandle' /\ ReachableIsReached'
  BY <1>1 DEF IInv, HostsInPlace, StatementsHaveAHandle, ReachableIsReached
<1> QED
  BY <1>3, <1>4, <1>5, <1>6 DEF IInv

(* A session or a host is lost, or a host is back.                              *)
LEMMA WorldStep == ASSUME IInv, World PROVE IInv'
<1>1. /\ LifeTypeOK
      /\ UNCHANGED <<conf, server, cc, proto, lock, app, other, promised, wantsAutocommit, leaked, fault>>
  BY DEF World, LoseSession, HostDown, HostUp, IInv
<1>2. alive' \in BOOLEAN /\ (alive' => alive)
  <2>1. CASE LoseSession
    BY <2>1 DEF LoseSession
  <2>2. ASSUME NEW h \in HostSet, HostDown(h) PROVE alive' \in BOOLEAN /\ (alive' => alive)
    <3>1. alive' = (alive /\ ~(alive /\ h = proto.currentHost))
      BY <2>2 DEF HostDown
    <3>2. alive' \in BOOLEAN
      BY <3>1, SMT
    <3>3. alive' => alive
      BY <3>1, Zenon
    <3> QED
      BY <3>2, <3>3
  <2>3. ASSUME NEW h \in HostSet, HostUp(h) PROVE alive' \in BOOLEAN /\ (alive' => alive)
    BY <1>1, <2>3 DEF HostUp, LifeTypeOK
  <2> QED
    BY <2>1, <2>2, <2>3 DEF World
<1>3. owed' \in BOOLEAN /\ (owed' => owed \/ (alive /\ ~alive' /\ server.work > 0))
  BY <1>1 DEF World, LoseSession, HostDown, HostUp, LifeTypeOK
<1>4. losses' \in 0..MaxLosses
  BY <1>1, ConnectionLifeAssumption DEF World, LoseSession, HostDown, HostUp, LifeTypeOK
<1>5. up' \subseteq HostSet /\ seenDown' \subseteq HostSet /\ seenDown \subseteq seenDown' /\ up' \cup seenDown' = HostSet
  BY <1>1 DEF World, LoseSession, HostDown, HostUp, LifeTypeOK, IInv, HostsInPlace
<1>6. LifeTypeOK'
  BY <1>1, <1>2, <1>3, <1>4, <1>5 DEF LifeTypeOK
<1>7. CallInPlace' /\ BeliefInPlace' /\ WorkInPlace' /\ WorkWaitsForCommit'
  BY <1>1, <1>2, <1>3, <1>6, AppStays
<1>8. MutexInPlace' /\ HandleInPlace' /\ StatementsHaveAHandle'
  BY <1>1, <1>2 DEF IInv, MutexInPlace, HandleInPlace, StatementsHaveAHandle
<1>9. HostsInPlace' /\ ReachableIsReached'
  BY <1>1, <1>5 DEF IInv, HostsInPlace, ReachableIsReached
<1> QED
  BY <1>6, <1>7, <1>8, <1>9 DEF IInv

-----------------------------------------------------------------------------
LEMMA InitiallyInPlace == LifeInit => IInv
<1> SUFFICES ASSUME LifeInit PROVE IInv
  OBVIOUS
<1>1. /\ server = NewSession("url") /\ server.autocommit = TRUE /\ server.inTransaction = FALSE /\ server.work = 0
      /\ server \in SessionType
  BY ConnectionLifeAssumption DEF LifeInit, NewSession, SessionType, Levels, Schemas, Limits
<1>2. cc \in HandleType /\ cc.socket = "null" /\ cc.database = "url"
  BY DEF LifeInit, HandleType, Schemas
<1>3. /\ proto \in ProtocolType /\ proto.connected = FALSE /\ proto.inTransaction = FALSE /\ proto.isolation = "none"
      /\ proto.database = "url" /\ proto.maxRows = 0
  <2>1. Hosts[1] \in HostSet
    BY ConnectionLifeAssumption DEF HostSet
  <2> QED
    BY <2>1 DEF LifeInit, ProtocolType, Levels, Schemas, Limits
<1>4. /\ app \in ThreadType /\ app.pc = "new" /\ app.call = None /\ app.todo = <<>> /\ app.ok = TRUE
      /\ app.hosts = Hosts
  <2>1. Call("isValid", 0) \in Calls
    BY DEF Calls, EarlyCheckCalls
  <2>2. <<>> \in UNION {[1..k -> Commands] : k \in 0..2}
    BY <2>1, TodoKinds, CallKinds
  <2> QED
    BY <2>2, ConnectionLifeAssumption DEF LifeInit, ThreadType
<1>5. LifeTypeOK
  <2>1. conf \in ConfType /\ wantsAutocommit \in BOOLEAN /\ losses \in 0..MaxLosses
    BY ConnectionLifeAssumption DEF LifeInit, ConfType
  <2> QED
    BY <1>1, <1>2, <1>3, <1>4, <2>1 DEF LifeInit, LifeTypeOK
<1>6. CallInPlace /\ MutexInPlace /\ HandleInPlace
  BY <1>2, <1>4 DEF LifeInit, CallInPlace, MutexInPlace, HandleInPlace, Busy, Working, Unconnected, Recovering,
                    Reconnecting, None, Call
<1>7. BeliefInPlace /\ WorkInPlace /\ WorkWaitsForCommit
  BY <1>1, <1>2, <1>3, <1>4 DEF LifeInit, BeliefInPlace, WorkInPlace, WorkWaitsForCommit, Transactional, Unconnected
<1>8. HostsInPlace /\ ReachableIsReached
  <2>1. Len(Hosts) \in 1..Len(Hosts) /\ Len(Hosts) \in Nat
    BY ConnectionLifeAssumption
  <2> QED
    BY <1>4, <2>1 DEF LifeInit, HostsInPlace, ReachableIsReached
<1>9. StatementsHaveAHandle
  BY CallKinds DEF LifeInit, StatementsHaveAHandle, Calls
<1> QED
  BY <1>5, <1>6, <1>7, <1>8, <1>9 DEF IInv

(* Every step of the threads, the server and the world keeps it.                *)
LEMMA LifeStep == IInv /\ [LifeNext]_lifeVars => IInv'
<1> SUFFICES ASSUME IInv, [LifeNext]_lifeVars PROVE IInv'
  OBVIOUS
<1>1. CASE UNCHANGED lifeVars
  <2>1. LifeTypeOK' /\ UNCHANGED <<conf, up, seenDown, losses, server, alive, cc, proto, lock, app, other, promised,
                                   wantsAutocommit, owed, leaked, fault>>
    BY <1>1 DEF lifeVars, IInv, LifeTypeOK
  <2>2. CallInPlace' /\ BeliefInPlace' /\ WorkInPlace' /\ WorkWaitsForCommit'
    BY <2>1, AppStays
  <2>3. MutexInPlace' /\ HandleInPlace' /\ StatementsHaveAHandle' /\ HostsInPlace' /\ ReachableIsReached'
    BY <2>1 DEF IInv, MutexInPlace, HandleInPlace, StatementsHaveAHandle, HostsInPlace, ReachableIsReached
  <2> QED
    BY <2>1, <2>2, <2>3 DEF IInv
<1>2. CASE AppSteps
  BY <1>2, ConnectWithoutProxyStep, EnterStep, SendStep, ReadStep, HandleIoExceptionStep, RecloseStep, RecreateStep,
     ResetStateAfterFailoverStep DEF AppSteps
<1>3. CASE OtherSteps \/ CloseExplicit \/ Abort \/ Cancel
  BY <1>3, CloseMarkStep, CloseSocketStep, AbortSocketStep, CloseExplicitStep, AbortStep, CancelStep DEF OtherSteps
<1> QED
  BY <1>1, <1>2, <1>3, ServeStep, WorldStep, BeginStep DEF LifeNext

(* Hence it always holds.                                                       *)
LEMMA LifeInvariance == LifeSpec => []IInv
BY InitiallyInPlace, LifeStep, PTL DEF LifeSpec

(* A commit that returns, and autocommit turned on, has kept all the work that  *)
(* was acknowledged, and no update is durable before commit() while autocommit  *)
(* is off, whatever the session, its host and the other thread do meanwhile     *)
(* (commit, setAutoCommit, executeQuery, the reconnect of the C library and of  *)
(* handleIoException).                                                          *)
THEOREM WorkStaysAccounted == LifeSpec => []WorkIsAccountedFor
<1>1. IInv => WorkIsAccountedFor
  BY DEF IInv, WorkInPlace, WorkIsAccountedFor, CommitIsHonest
<1> QED
  BY <1>1, LifeInvariance, PTL

(* Between two calls the protocol is right about the session; its end is an     *)
(* end; a running statement has a handle; connecting is given up only when all  *)
(* the hosts have been down.                                                    *)
THEOREM ConnectionStaysItsState == LifeSpec => []ConnectionIsItsState
<1>1. IInv => ConnectionIsItsState
  <2> SUFFICES ASSUME IInv PROVE ConnectionIsItsState
    OBVIOUS
  <2>1. BeliefIsTruth
    BY DEF IInv, BeliefInPlace, BeliefIsTruth, AtRest, Agree, Believed, Answered
  <2>2. ClosedStaysClosed
    BY DEF IInv, HandleInPlace, ClosedStaysClosed
  <2> QED
    BY <2>1, <2>2 DEF IInv, ConnectionIsItsState
<1> QED
  BY <1>1, LifeInvariance, PTL
=============================================================================
