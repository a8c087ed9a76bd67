----------------------------- MODULE SessionState -----------------------------
(* The session of one pooled connection across its successive users: what the   *)
(* server holds, what the protocol object remembers of it (serverStatus and     *)
(* client-side settings, protocol/capi/QueryProtocol.cpp), and the stateFlag of *)
(* the MariaDbConnection object a user has, which reset() consults when the     *)
(* connection is given back (MariaDbConnection.cpp, pool/Pool.cpp).             *)
EXTENDS FiniteSets

VARIABLES
  server,          \* the server's session
  protocol,        \* what the driver remembers
  stateFlag,       \* of the current connection object
  user,            \* "idle" (in the pool) or "held"
  useComReset      \* useResetConnection, and a server that knows COM_RESET_CONNECTION

vars == <<server, protocol, stateFlag, user, useComReset>>

Settings == {"default", "changed"}
Flags == {"NETWORK_TIMEOUT", "AUTOCOMMIT", "DATABASE", "READ_ONLY", "TRANSACTION_ISOLATION"}
Sessions == [autocommit : BOOLEAN, inTransaction : BOOLEAN, isolation : Settings, database : Settings,
             variables : Settings]
Protocols == [autocommit : BOOLEAN, inTransaction : BOOLEAN,        \* the bits of serverStatus
              readOnly : BOOLEAN, socketTimeout : Settings, database : Settings]

TypeOK ==
  /\ server \in Sessions /\ protocol \in Protocols
  /\ stateFlag \subseteq Flags
  /\ user \in {"idle", "held"}
  /\ useComReset \in BOOLEAN

FreshSession == [autocommit |-> TRUE, inTransaction |-> FALSE, isolation |-> "default",
                 database |-> "default", variables |-> "default"]
FreshProtocol == [autocommit |-> TRUE, inTransaction |-> FALSE, readOnly |-> FALSE,
                  socketTimeout |-> "default", database |-> "default"]

Init ==
  /\ server = FreshSession /\ protocol = FreshProtocol
  /\ stateFlag = {} /\ user = "idle"
  /\ useComReset \in BOOLEAN

-----------------------------------------------------------------------------
\* serverStatus after the OK packet of a statement
Refreshed(s) == [protocol EXCEPT !.autocommit = s.autocommit, !.inTransaction = s.inTransaction]

\* what a statement that is not autocommitted leaves open, and what ends it
AfterUpdate(s) == [s EXCEPT !.inTransaction = @ \/ ~s.autocommit]
Begun(s) == [s EXCEPT !.inTransaction = TRUE]
Ended(s) == [s EXCEPT !.inTransaction = FALSE]

-----------------------------------------------------------------------------
(* Plausible slips; the properties below have to notice them.                   *)

\* an error is taken for the end of the transaction
StatusAfterErrorEnded == [protocol EXCEPT !.inTransaction = FALSE]

\* close() does not roll back
AfterRollbackNot == server

\* reset() sends nothing
AfterComResetNot(s) == s

-----------------------------------------------------------------------------
(* What a user does                                                             *)

(* getIdleConnection: a connection that is validated gets isValid's timeout for *)
(* good when it had none.                                                       *)
Borrow ==
  /\ user = "idle" /\ user' = "held"
  /\ \/ UNCHANGED protocol
     \/ protocol' = [protocol EXCEPT !.socketTimeout = "changed"]
  /\ UNCHANGED <<server, stateFlag, useComReset>>

(* A statement that succeeds: an update, START TRANSACTION, or SQL that changes *)
(* the session.                                                                 *)
Execute ==
  /\ user = "held"
  /\ \/ server' = AfterUpdate(server)
     \/ server' = Begun(server)
     \/ server' = [server EXCEPT !.variables = "changed"]
  /\ protocol' = Refreshed(server')
  /\ UNCHANGED <<stateFlag, user, useComReset>>

(* One that fails. The error of the first answer is thrown by realQuery, before *)
(* the protocol looks at it; an error behind answers already read is met by     *)
(* readErrorPacket, which assumes that a transaction is open.                   *)
StatusAfterError == [protocol EXCEPT !.inTransaction = TRUE]
ExecuteFails ==
  /\ user = "held"
  /\ \/ UNCHANGED <<server, protocol>>
     \/ server' = AfterUpdate(server) /\ protocol' = StatusAfterError
  /\ UNCHANGED <<stateFlag, user, useComReset>>

FlagsWith(f) == stateFlag \cup {f}

(* Nothing is sent when serverStatus already says so.                           *)
SetAutoCommit(v) ==
  /\ user = "held"
  /\ IF v = protocol.autocommit
     THEN UNCHANGED <<server, protocol, stateFlag>>
     ELSE /\ stateFlag' = FlagsWith("AUTOCOMMIT")
          \* turning autocommit on commits
          /\ server' = [server EXCEPT !.autocommit = v, !.inTransaction = @ /\ ~v]
          /\ protocol' = Refreshed(server')
  /\ UNCHANGED <<user, useComReset>>

SetReadOnly(v) ==
  /\ user = "held"
  /\ stateFlag' = IF v THEN FlagsWith("READ_ONLY") ELSE stateFlag \ {"READ_ONLY"}
  /\ protocol' = [protocol EXCEPT !.readOnly = v]
  /\ UNCHANGED <<server, user, useComReset>>

SetTransactionIsolation(l) ==
  /\ user = "held"
  /\ stateFlag' = FlagsWith("TRANSACTION_ISOLATION")
  /\ server' = [server EXCEPT !.isolation = l]
  /\ UNCHANGED <<protocol, user, useComReset>>

SetSchema(d) ==
  /\ user = "held"
  /\ stateFlag' = FlagsWith("DATABASE")
  /\ server' = [server EXCEPT !.database = d]
  /\ protocol' = [protocol EXCEPT !.database = d]
  /\ UNCHANGED <<user, useComReset>>

SetNetworkTimeout(n) ==
  /\ user = "held"
  /\ stateFlag' = FlagsWith("NETWORK_TIMEOUT")
  /\ protocol' = [protocol EXCEPT !.socketTimeout = n]
  /\ UNCHANGED <<server, user, useComReset>>

(* commit() and rollback(): only if serverStatus has IN_TRANSACTION.            *)
EndTransaction ==
  /\ user = "held" /\ protocol.inTransaction
  /\ server' = Ended(server) /\ protocol' = Refreshed(server')
  /\ UNCHANGED <<stateFlag, user, useComReset>>

-----------------------------------------------------------------------------
(* Giving back                                                                  *)

\* MariaDbConnection::close begins with rollback()
AfterRollback == IF protocol.inTransaction THEN Ended(server) ELSE server

(* COM_RESET_CONNECTION at the server; serverStatus is not read again.          *)
AfterComReset(s) == [FreshSession EXCEPT !.database = s.database]

(* connectionClosed makes a FRESH connection object, whose stateFlag is 0, and  *)
(* calls reset() of that object: the settings of the old one's flags stay.      *)
GiveBack(way) ==
  /\ user = "held"
  /\ LET s == IF way = "close" THEN AfterRollback ELSE server
     IN  /\ server' = IF useComReset THEN AfterComReset(s) ELSE s
         /\ protocol' = IF way = "close" /\ protocol.inTransaction THEN Refreshed(s) ELSE protocol
  /\ stateFlag' = {} /\ user' = "idle"
  /\ UNCHANGED useComReset

Next ==
  \/ Borrow \/ Execute \/ ExecuteFails \/ EndTransaction
  \/ \E v \in BOOLEAN : SetAutoCommit(v) \/ SetReadOnly(v)
  \/ \E x \in Settings : SetTransactionIsolation(x) \/ SetSchema(x) \/ SetNetworkTimeout(x)
  \/ \E way \in {"close", "destroy"} : GiveBack(way)

Spec == Init /\ [][Next]_vars

-----------------------------------------------------------------------------
(* An open transaction is known: commit() and rollback() are never skipped      *)
(* while the server has one, whatever errors and resets came before.            *)
TransactionIsKnown == server.inTransaction => protocol.inTransaction

(* No transaction outlives the lease in which it was begun, if the user closes  *)
(* the connection or the pool resets it. (One that is destroyed without close,  *)
(* and not reset, keeps its transaction.)                                       *)
NoTransactionLeaks ==
  [][(GiveBack("close") \/ (GiveBack("destroy") /\ useComReset)) => ~server'.inTransaction]_vars

(* What COM_RESET_CONNECTION is used for: the next user meets the server's      *)
(* session variables as they were.                                              *)
SessionIsReset ==
  (useComReset /\ user = "idle") => [server EXCEPT !.database = "default"] = FreshSession

(* "Reset connection set has it was after creating a "fresh" new connection"    *)
(* (session variables excepted): nothing a user set through the connection's    *)
(* methods is there when the connection is idle.                                *)
GivenBackIsFresh ==
  user = "idle" =>
    /\ server.autocommit /\ server.isolation = "default" /\ server.database = "default"
    /\ ~protocol.readOnly
=============================================================================
