--------------------------- MODULE ConnectionLife ---------------------------
(* One connection, from the first connect over its hosts to its end: what two   *)
(* threads of the application do with it, what the protocol believes of the     *)
(* server's session (protocol/capi/QueryProtocol.cpp, ConnectProtocol.cpp), how *)
(* the session is lost, and how autoReconnect brings another one.               *)
(*                                                                              *)
(* The thread "app" works: statements run under the protocol's mutex, each      *)
(* command is sent, done by the server and read. The thread "other" closes,     *)
(* aborts or cancels.                                                           *)
EXTENDS Naturals, Sequences, FiniteSets

CONSTANTS
  Hosts,        \* the hosts of the URL, in its order or the shuffled one of LOADBALANCE
  MaxWork,      \* the updates of one transaction
  MaxLosses     \* how often the session is lost

HostSet == {Hosts[i] : i \in 1..Len(Hosts)}

ASSUME ConnectionLifeAssumption ==
  Hosts \in Seq(HostSet) /\ Len(Hosts) > 0 /\ MaxWork \in Nat /\ MaxLosses \in Nat

VARIABLES
  conf,         \* options
  up,           \* the hosts that can be reached
  seenDown,     \* those that could not, at some time
  losses,
  server,       \* the session of this connection at the server
  alive,        \* whether there is one
  cc,           \* the C client library's handle
  proto,        \* the protocol object
  lock,         \* its mutex
  app, other,   \* the two threads
  promised,     \* the last call was a commit, and it returned
  wantsAutocommit, \* the mode the application asked for last and was granted
  owed,         \* work that was acknowledged and is lost, the application not told
  leaked,       \* an update the application has not committed is durable (without autoReconnect)
  fault         \* the call that used a handle that is not there

envVars == <<up, seenDown, losses>>
lifeVars == <<conf, up, seenDown, losses, server, alive, cc, proto, lock, app, other, promised,
              wantsAutocommit, owed, leaked, fault>>

Levels == {"none", "serializable"}
Schemas == {"url", "mine"}
Limits == {0, 1}

Call(op, v) == [op |-> op, v |-> v]
StatementCalls == {Call("update", 0), Call("commit", 0), Call("rollback", 0)}
                  \cup {Call("setAutoCommit", v) : v \in BOOLEAN}
                  \cup {Call("select", m) : m \in Limits}
\* these look at connected before they take the mutex
EarlyCheckCalls == {Call("setTransactionIsolation", l) : l \in Levels \ {"none"}}
                   \cup {Call("setSchema", d) : d \in Schemas} \cup {Call("isValid", 0)}
Calls == StatementCalls \cup EarlyCheckCalls
Limit(m) == Call("limit", m)
Commands == Calls \cup {Limit(m) : m \in Limits}
SettingOps == {"setTransactionIsolation", "setSchema", "select"}
\* setting is a bound: which of these calls the application makes besides the others
ConfType == [autoReconnect : BOOLEAN, autocommit : BOOLEAN, setting : SettingOps]
None == Call("none", 0)

Threads == {"app", "other"}
Working == {"lock", "send", "sent", "done", "failed", "reclose", "resocket", "recreate", "restore"}

SessionType == [autocommit : BOOLEAN, inTransaction : BOOLEAN, isolation : Levels,
                database : Schemas, limit : Limits, work : 0..MaxWork]
HandleType == [socket : {"null", "closed", "open"}, inTransaction : BOOLEAN, database : Schemas]
ProtocolType == [connected : BOOLEAN, explicitClosed : BOOLEAN, autocommit : BOOLEAN,
                 inTransaction : BOOLEAN, isolation : Levels, database : Schemas, maxRows : Limits,
                 currentHost : HostSet]
ThreadType == [pc : Working \cup {"new", "refused", "idle", "crashed"}, call : Calls \cup {None},
               todo : UNION {[1..n -> Commands] : n \in 0..2}, ok : BOOLEAN, hosts : Seq(HostSet)]

LifeTypeOK ==
  /\ conf \in ConfType
  /\ up \subseteq HostSet /\ seenDown \subseteq HostSet /\ losses \in 0..MaxLosses
  /\ server \in SessionType /\ alive \in BOOLEAN
  /\ cc \in HandleType /\ proto \in ProtocolType
  /\ lock \in Threads \cup {"free"}
  /\ app \in ThreadType
  /\ other \in {"start", "closing", "socket", "closed", "aborting", "aborted"}
  /\ promised \in BOOLEAN
  /\ wantsAutocommit \in BOOLEAN /\ owed \in BOOLEAN /\ leaked \in BOOLEAN
  /\ fault \in Calls \cup {None}

-----------------------------------------------------------------------------
(* The server                                                                   *)

NewSession(d) == [autocommit |-> TRUE, inTransaction |-> FALSE, isolation |-> "none",
                  database |-> d, limit |-> 0, work |-> 0]

\* additionalData begins with "set autocommit=" and the option
PostConnectionQueries(s) == [s EXCEPT !.autocommit = conf.autocommit]

Autocommitted(s) == s.autocommit /\ ~s.inTransaction
Ended(s) == [s EXCEPT !.inTransaction = FALSE, !.work = 0]

Perform(s, c) ==
  CASE c.op = "update" ->
         IF Autocommitted(s) THEN s ELSE [s EXCEPT !.inTransaction = TRUE, !.work = @ + 1]
    [] c.op \in {"commit", "rollback"} -> Ended(s)
    [] c.op = "setAutoCommit" -> [(IF c.v THEN Ended(s) ELSE s) EXCEPT !.autocommit = c.v]
    [] c.op = "setTransactionIsolation" -> [s EXCEPT !.isolation = c.v]
    [] c.op = "setSchema" -> [s EXCEPT !.database = c.v]
    [] c.op = "limit" -> [s EXCEPT !.limit = c.v]
    [] OTHER -> s

-----------------------------------------------------------------------------
(* Plausible slips; the properties below have to notice them.                   *)

\* the mutex is kept while the exception is handled
LockAfterLossKept == "app"

\* the transaction bit is not taken over
ReadStatusNoTransaction(s) == [proto EXCEPT !.autocommit = s.autocommit]

\* close() does without the mutex
CloseMarkUnlocked ==
  /\ other = "closing" /\ other' = "closed" /\ alive' = FALSE
  /\ proto' = [proto EXCEPT !.connected = FALSE] /\ cc' = [cc EXCEPT !.socket = "null"]
  /\ UNCHANGED <<conf, envVars, server, lock, app, promised, wantsAutocommit, owed, leaked, fault>>

-----------------------------------------------------------------------------
(* The protocol object                                                          *)

\* readOkPacket takes serverStatus; setTransactionIsolation, setCatalog and ping read none
ReadStatus(s) == [proto EXCEPT !.autocommit = s.autocommit, !.inTransaction = s.inTransaction]

(* What the answer to a command leaves in the protocol.                         *)
AfterAnswer(c) ==
  CASE c.op = "setTransactionIsolation" -> [proto EXCEPT !.isolation = c.v]
    [] c.op = "setSchema" -> [proto EXCEPT !.database = c.v]
    [] c.op = "limit" -> [ReadStatus(server) EXCEPT !.maxRows = c.v]
    [] c.op = "isValid" -> proto
    [] OTHER -> ReadStatus(server)

\* prolog: SQL_SELECT_LIMIT is sent when the statement's maxRows is another one
MaxRowsOf(c) == IF c.op = "select" THEN c.v ELSE 0
Prolog(c) == IF c \in StatementCalls /\ MaxRowsOf(c) # proto.maxRows
             THEN <<Limit(MaxRowsOf(c)), c>> ELSE <<c>>

(* commit() and rollback() without a transaction, and setAutoCommit() to what   *)
(* serverStatus says: nothing is sent.                                          *)
NothingToDo(c) ==
  \/ c.op \in {"commit", "rollback"} /\ ~proto.inTransaction
  \/ c.op = "setAutoCommit" /\ c.v = proto.autocommit

-----------------------------------------------------------------------------
LifeInit ==
  /\ conf \in ConfType
  /\ up = HostSet /\ seenDown = {} /\ losses = 0
  /\ server = NewSession("url") /\ alive = FALSE
  /\ cc = [socket |-> "null", inTransaction |-> FALSE, database |-> "url"]
  /\ proto = [connected |-> FALSE, explicitClosed |-> FALSE, autocommit |-> TRUE,
              inTransaction |-> FALSE, isolation |-> "none", database |-> "url", maxRows |-> 0,
              currentHost |-> Hosts[1]]
  /\ lock = "free" /\ other = "start"
  /\ app = [pc |-> "new", call |-> None, todo |-> <<>>, ok |-> TRUE, hosts |-> Hosts]
  /\ promised = FALSE
  /\ wantsAutocommit = conf.autocommit /\ owed = FALSE /\ leaked = FALSE /\ fault = None

-----------------------------------------------------------------------------
(* Connecting                                                                   *)

SchemaOfNewSession == proto.database
OpenHandle(d) == [socket |-> "open", inTransaction |-> FALSE, database |-> d]

(* createConnection at h: connected, then postConnectionQueries, whose answers  *)
(* bring the status.                                                            *)
Connected(h) ==
  LET s == PostConnectionQueries(NewSession(SchemaOfNewSession))
  IN  /\ h \in up /\ alive' = TRUE /\ server' = s
      /\ cc' = OpenHandle(SchemaOfNewSession)
      /\ proto' = [ReadStatus(s) EXCEPT !.connected = TRUE, !.currentHost = h]

HostsAfter(hosts) == SubSeq(hosts, 1, Len(hosts) - 1)

(* connectWithoutProxy: the hosts in turn, from the back of the list, until one *)
(* accepts.                                                                     *)
ConnectWithoutProxy ==
  /\ app.pc = "new"
  /\ LET h == app.hosts[Len(app.hosts)]
     IN  \/ Connected(h) /\ app' = [app EXCEPT !.pc = "idle", !.hosts = <<>>]
         \/ /\ h \notin up
            /\ app' = [app EXCEPT !.hosts = HostsAfter(app.hosts),
                                  !.pc = IF HostsAfter(app.hosts) = <<>> THEN "refused" ELSE "new"]
            /\ UNCHANGED <<alive, server, cc, proto>>
  /\ UNCHANGED <<conf, envVars, lock, other, promised, wantsAutocommit, owed, leaked, fault>>

(* mysql_reconnect inside the C library: in the schema it knows, with none of   *)
(* the session's settings; refused in a transaction.                            *)
CanReconnect == conf.autoReconnect /\ ~cc.inTransaction /\ proto.currentHost \in up
SilentReconnect ==
  /\ CanReconnect
  /\ alive' = TRUE /\ server' = NewSession(cc.database) /\ cc' = [cc EXCEPT !.socket = "open"]

-----------------------------------------------------------------------------
(* A call of the application                                                    *)

Returns(c) ==
  /\ app' = [app EXCEPT !.pc = "idle", !.call = None, !.todo = <<>>, !.ok = TRUE]
  /\ promised' = (c \in {Call("commit", 0), Call("setAutoCommit", TRUE)})
  /\ wantsAutocommit' = IF c.op = "setAutoCommit" THEN c.v ELSE wantsAutocommit
\* isValid answers FALSE, every other call throws
Throws(c) ==
  /\ app' = [app EXCEPT !.pc = "idle", !.call = None, !.todo = <<>>, !.ok = TRUE]
  /\ promised' = FALSE
  /\ owed' = FALSE /\ UNCHANGED wantsAutocommit
Crashes(c) ==
  /\ fault' = c
  /\ app' = [app EXCEPT !.pc = "crashed", !.call = None, !.todo = <<>>]
  /\ UNCHANGED <<promised, wantsAutocommit, owed>>
Release == lock' = IF lock = "app" THEN "free" ELSE lock

Begin(c) ==
  /\ app.pc = "idle" /\ (c.op = "update" => server.work < MaxWork)
  /\ c.op \in SettingOps => c.op = conf.setting
  /\ \/ NothingToDo(c) /\ Returns(c) /\ UNCHANGED owed
     \/ c \in EarlyCheckCalls /\ ~proto.connected /\ Throws(c)
     \/ /\ ~NothingToDo(c) /\ (c \in EarlyCheckCalls => proto.connected)
        /\ app' = [app EXCEPT !.pc = "lock", !.call = c] /\ promised' = FALSE
        /\ UNCHANGED <<wantsAutocommit, owed>>
  /\ UNCHANGED <<conf, envVars, server, alive, cc, proto, lock, other, leaked, fault>>

(* executeQueryPrologue under the mutex.                                        *)
Enter ==
  /\ app.pc = "lock" /\ lock = "free"
  /\ IF app.call \in StatementCalls /\ proto.explicitClosed
     THEN Throws(app.call) /\ UNCHANGED lock
     ELSE /\ lock' = "app" /\ app' = [app EXCEPT !.pc = "send", !.todo = Prolog(app.call)]
          /\ UNCHANGED <<promised, wantsAutocommit, owed>>
  /\ UNCHANGED <<conf, envVars, server, alive, cc, proto, other, leaked, fault>>

LockAfterLoss == "free"

(* The handle reports an error of the connection. A statement hands a loss met  *)
(* while reading to handleIoException, setCatalog each loss, after the mutex is *)
(* released; the others throw.                                                  *)
Lost(reading) ==
  /\ cc' = [cc EXCEPT !.socket = "closed", !.inTransaction = FALSE]
  /\ IF app.call.op = "setSchema" \/ (app.call \in StatementCalls /\ reading)
     THEN /\ lock' = LockAfterLoss /\ app' = [app EXCEPT !.pc = "failed", !.todo = <<>>]
          /\ UNCHANGED <<promised, wantsAutocommit, owed>>
     ELSE Throws(app.call) /\ Release

(* realQuery, mysql_select_db or mysql_ping, of the first command of todo.      *)
Send ==
  /\ app.pc = "send"
  /\ \/ /\ app.call \in StatementCalls /\ ~proto.connected       \* cmdPrologue
        /\ Throws(app.call) /\ Release /\ UNCHANGED <<server, alive, cc, fault>>
     \/ /\ app.call \in EarlyCheckCalls \/ proto.connected
        /\ \/ cc.socket = "null" /\ Crashes(app.call) /\ Release /\ UNCHANGED <<server, alive,
                                                                                cc>>
           \/ /\ cc.socket = "open"
              /\ app' = [app EXCEPT !.pc = "sent"]
              /\ UNCHANGED <<server, alive, cc, lock, promised, wantsAutocommit, owed, fault>>
           \/ /\ cc.socket = "closed" \/ (cc.socket = "open" /\ ~alive)
              /\ \/ /\ SilentReconnect /\ app' = [app EXCEPT !.pc = "sent"]
                    /\ UNCHANGED <<lock, promised, wantsAutocommit, owed>>
                 \/ ~CanReconnect /\ Lost(FALSE) /\ UNCHANGED <<server, alive>>
              /\ UNCHANGED fault
  /\ UNCHANGED <<conf, envVars, proto, other, leaked>>

(* The server does the command.                                                 *)
Serve ==
  /\ app.pc = "sent" /\ alive
  /\ LET c == Head(app.todo)
     IN  /\ server' = Perform(server, c)
         /\ app' = [app EXCEPT !.pc = "done"]
         /\ leaked' = (leaked \/ (c.op = "update" /\ Autocommitted(server) /\ ~wantsAutocommit
                                   /\ ~conf.autoReconnect))
  /\ UNCHANGED <<conf, envVars, alive, cc, proto, lock, other, promised, wantsAutocommit, owed,
                 fault>>

(* getResult and the way back. An error of the server (the command was killed)  *)
(* is thrown by realQuery and leaves the protocol alone.                        *)
Read ==
  /\ app.pc = "done" \/ (app.pc = "sent" /\ ~alive)
  /\ \/ /\ cc.socket = "null" /\ Crashes(app.call) /\ Release /\ UNCHANGED <<cc, proto>>
     \/ /\ cc.socket = "open" /\ ~alive /\ Lost(TRUE) /\ UNCHANGED <<proto, fault>>
     \/ /\ cc.socket = "open" /\ alive /\ app.pc = "done"
        /\ \/ ~app.ok /\ Throws(app.call) /\ Release /\ UNCHANGED <<cc, proto>>
           \/ /\ app.ok /\ proto' = AfterAnswer(Head(app.todo))
              /\ cc' = IF Head(app.todo).op = "setSchema" THEN [cc EXCEPT !.database = server.database]
                       ELSE [cc EXCEPT !.inTransaction = server.inTransaction]
              /\ IF Len(app.todo) > 1
                 THEN app' = [app EXCEPT !.pc = "send", !.todo = Tail(@)]
                      /\ UNCHANGED <<lock, promised, wantsAutocommit, owed>>
                 ELSE Returns(app.call) /\ Release /\ UNCHANGED owed
        /\ UNCHANGED fault
  /\ UNCHANGED <<conf, envVars, server, alive, other, leaked>>

-----------------------------------------------------------------------------
(* handleIoException, without the mutex                                         *)

Unreconnected(p) == [p EXCEPT !.connected = FALSE]

HandleIoException ==
  /\ app.pc = "failed"
  /\ IF conf.autoReconnect /\ ~proto.explicitClosed
     THEN /\ app' = [app EXCEPT !.pc = IF proto.connected THEN "reclose" ELSE "recreate"]
          /\ UNCHANGED <<proto, promised, wantsAutocommit, owed>>
     ELSE proto' = Unreconnected(proto) /\ Throws(app.call)
  /\ UNCHANGED <<conf, envVars, server, alive, cc, lock, other, leaked, fault>>

\* connect() closes first: twice the mutex, as in close() below
Reclose ==
  /\ lock = "free"
  /\ \/ /\ app.pc = "reclose" /\ proto' = [proto EXCEPT !.connected = FALSE]
        /\ app' = [app EXCEPT !.pc = "resocket"] /\ UNCHANGED cc
     \/ /\ app.pc = "resocket" /\ cc' = [cc EXCEPT !.socket = "null"]
        /\ app' = [app EXCEPT !.pc = "recreate"] /\ UNCHANGED proto
  /\ UNCHANGED <<conf, envVars, server, alive, lock, other, promised, wantsAutocommit, owed,
                 leaked, fault>>

(* createConnection at currentHost: it works, or connected is FALSE.            *)
Recreate ==
  /\ app.pc = "recreate"
  /\ \/ Connected(proto.currentHost) /\ app' = [app EXCEPT !.pc = "restore"]
        /\ UNCHANGED <<promised, wantsAutocommit, owed>>
     \/ /\ proto.currentHost \notin up /\ proto' = [proto EXCEPT !.connected = FALSE]
        /\ Throws(app.call) /\ UNCHANGED <<server, alive, cc>>
  /\ UNCHANGED <<conf, envVars, lock, other, leaked, fault>>

(* resetStateAfterFailover: the settings are compared with what the new session *)
(* just told, so only the isolation level is set again; the call throws anyway. *)
(* (A session lost meanwhile stays lost: the next command meets it.)            *)
ResetStateAfterFailover ==
  /\ app.pc = "restore" /\ lock = "free"
  /\ \/ /\ proto.isolation # "none" /\ cc.socket = "null" /\ Crashes(app.call) /\ UNCHANGED server
     \/ /\ proto.isolation = "none" \/ cc.socket # "null"
        /\ server' = IF alive THEN [server EXCEPT !.isolation = proto.isolation] ELSE server
        /\ Throws(app.call) /\ UNCHANGED fault
  /\ UNCHANGED <<conf, envVars, alive, cc, proto, lock, other, leaked>>

-----------------------------------------------------------------------------
(* The other thread                                                             *)

MarkedClosed(p) == [p EXCEPT !.connected = FALSE]

(* closeExplicit: the flag without the mutex, connected under it, skip() after  *)
(* it is released, the socket under it again.                                   *)
CloseExplicit ==
  /\ other = "start" /\ app.pc \notin {"new", "refused"} /\ other' = "closing"
  /\ proto' = [proto EXCEPT !.explicitClosed = TRUE]
  /\ UNCHANGED <<conf, envVars, server, alive, cc, lock, app, promised, wantsAutocommit, owed,
                 leaked, fault>>
CloseMark ==
  /\ other = "closing" /\ lock = "free" /\ proto' = MarkedClosed(proto) /\ other' = "socket"
  /\ UNCHANGED <<conf, envVars, server, alive, cc, lock, app, promised, wantsAutocommit, owed,
                 leaked, fault>>
CloseSocket ==
  /\ other = "socket" /\ lock = "free" /\ other' = "closed"
  /\ cc' = [cc EXCEPT !.socket = "null"]
  /\ alive' = FALSE
  /\ UNCHANGED <<conf, envVars, server, proto, lock, app, promised, wantsAutocommit, owed,
                 leaked, fault>>

(* abort: if another thread has the mutex, the session is killed through a      *)
(* connection of its own, and the socket goes in any case.                      *)
Abort ==
  /\ other = "start" /\ app.pc \notin {"new", "refused"} /\ proto.connected
  /\ other' = "aborting"
  /\ proto' = [proto EXCEPT !.explicitClosed = TRUE, !.connected = FALSE]
  /\ lock' = IF lock = "free" THEN "other" ELSE lock
  /\ UNCHANGED <<conf, envVars, server, alive, cc, app, promised, wantsAutocommit, owed,
                 leaked, fault>>
AbortSocket ==
  /\ other = "aborting" /\ other' = "aborted"
  /\ alive' = FALSE /\ cc' = [cc EXCEPT !.socket = "null"]
  /\ lock' = IF lock = "other" THEN "free" ELSE lock
  /\ UNCHANGED <<conf, envVars, server, proto, app, promised, wantsAutocommit, owed, leaked,
                 fault>>

(* cancelCurrentQuery: KILL QUERY through another connection, which meets       *)
(* whatever command is running by then.                                         *)
Cancel ==
  /\ other = "start" /\ app.pc = "sent" /\ alive /\ proto.currentHost \in up
  /\ app' = [app EXCEPT !.pc = "done", !.ok = FALSE]
  /\ UNCHANGED <<conf, envVars, server, alive, cc, proto, lock, other, promised, wantsAutocommit,
                 owed, leaked, fault>>

-----------------------------------------------------------------------------
(* The world                                                                    *)

LoseSession ==
  /\ alive /\ losses < MaxLosses /\ losses' = losses + 1
  /\ alive' = FALSE /\ owed' = (owed \/ (server.work > 0 /\ other = "start"))
  /\ UNCHANGED <<conf, up, seenDown, server, cc, proto, lock, app, other, promised,
                 wantsAutocommit, leaked, fault>>
HostDown(h) ==
  /\ app.pc = "new" \/ h = proto.currentHost       \* the others play no part any more
  /\ h \in up /\ losses < MaxLosses /\ losses' = losses + 1
  /\ up' = up \ {h} /\ seenDown' = seenDown \cup {h}
  /\ LET mine == alive /\ h = proto.currentHost
     IN  /\ alive' = (alive /\ ~mine)
         /\ owed' = (owed \/ (mine /\ server.work > 0 /\ other = "start"))
  /\ UNCHANGED <<conf, server, cc, proto, lock, app, other, promised, wantsAutocommit, leaked,
                 fault>>
HostUp(h) ==
  /\ app.pc = "new" \/ h = proto.currentHost
  /\ h \notin up /\ up' = up \cup {h}
  /\ UNCHANGED <<conf, seenDown, losses, server, alive, cc, proto, lock, app, other, promised, wantsAutocommit, owed,
                 leaked, fault>>

AppSteps == \/ ConnectWithoutProxy \/ Enter \/ Send \/ Read
            \/ HandleIoException \/ Reclose \/ Recreate \/ ResetStateAfterFailover
OtherSteps == CloseMark \/ CloseSocket \/ AbortSocket
World == LoseSession \/ \E h \in HostSet : HostDown(h) \/ HostUp(h)
LifeNext ==
  \/ AppSteps \/ Serve \/ OtherSteps \/ World
  \/ CloseExplicit \/ Abort \/ Cancel
  \/ \E c \in Calls : Begin(c)

(* The two threads run; the server does what it is sent, or the session is lost.*)
LifeSpec == LifeInit /\ [][LifeNext]_lifeVars /\ WF_lifeVars(AppSteps) /\ WF_lifeVars(Serve)
            /\ WF_lifeVars(OtherSteps)

-----------------------------------------------------------------------------
(* A call is over, and nobody closes.                                           *)
AtRest == app.pc = "idle" /\ other \in {"start"} /\ proto.connected /\ alive

(* What the protocol believes between two calls is true of the session: the     *)
(* schema and an open transaction always (commit, rollback, resetDatabase and   *)
(* the reconnects rely on them); the mode, the isolation level and the row      *)
(* limit as long as autoReconnect has not replaced the session.                 *)
BeliefIsTruth ==
  AtRest => /\ proto.database = server.database
            /\ server.inTransaction => proto.inTransaction
            /\ conf.autoReconnect \/ /\ proto.autocommit = server.autocommit
                                     /\ proto.isolation = server.isolation
                                     /\ proto.maxRows = server.limit

(* A commit, or autocommit turned on, that returns has kept all that was        *)
(* acknowledged before: work lost with a session is never passed over, also     *)
(* when a session was replaced on the way.                                      *)
CommitIsHonest == promised => ~owed

(* While the application has autocommit off, no update of it is durable before  *)
(* commit(): the mode it was granted is the session's, unless autoReconnect     *)
(* replaced the session by one in the server's default mode.                    *)
WorkWaitsForCommit == ~leaked

(* A statement that is running or comes after close() never uses a handle that  *)
(* is gone. (abort() frees it under a running statement, a reconnect races with *)
(* close(), and setTransactionIsolation, setSchema and isValid check before     *)
(* they take the mutex.)                                                        *)
StatementsHaveAHandle ==
  fault \in StatementCalls => other \in {"aborting", "aborted"} \/ conf.autoReconnect

(* Once close() or abort() is over there is no session and no belief in one,    *)
(* unless a reconnect had been decided before.                                  *)
ClosedStaysClosed ==
  other \in {"closed", "aborted"} =>
    conf.autoReconnect \/ (~proto.connected /\ ~alive /\ cc.socket = "null")

(* The hosts of the URL are all tried: connecting is given up only if each of   *)
(* them was down at some time.                                                  *)
ReachableIsReached == app.pc = "refused" => seenDown = HostSet

(* Every call comes back, whatever is lost and closed meanwhile: nobody waits   *)
(* for the mutex for ever.                                                      *)
CallsReturn == (app.pc \in Working) ~> (app.pc \in {"idle", "crashed"})

(* Acknowledged work is neither lost nor kept behind the application's back,    *)
(* whatever happens to the session.                                             *)
WorkIsAccountedFor == CommitIsHonest /\ WorkWaitsForCommit

(* The protocol, its handle and the session agree: about the session's state    *)
(* between two calls, about its end, and about its host.                        *)
ConnectionIsItsState ==
  /\ LifeTypeOK
  /\ BeliefIsTruth
  /\ StatementsHaveAHandle
  /\ ClosedStaysClosed
  /\ ReachableIsReached
=============================================================================
