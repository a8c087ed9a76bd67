----------------------------- MODULE ErrorPaths -----------------------------
(* What becomes of an error on its way from the server to the application: the    *)
(* query protocol adds the query (util/LogQueryTool.cpp), the statement decides    *)
(* whether it closes itself or declares the connection lost (MariaDbStatement,     *)
(* BasePrepareStatement), and ExceptionFactory picks the class that is thrown. An  *)
(* SQL state is the pair of its class and the rest.                                *)
EXTENDS Integers

CONSTANTS ServerErrors,   \* pairs of SQL state and code that the server or its library raises
          MaxFailures     \* bound: failures of one statement

ASSUME ErrorsAssumption == MaxFailures \in Nat

VARIABLE errors
\* errors.kind       the statement: "text", "client" (side prepared) or "server" (side prepared)
\* errors.options    dumpQueriesOnException, allowLocalInfile and the way a batch is sent
\* errors.closed     MariaDbStatement.closed;  errors.prepared  serverPrepareResult is held
\* errors.connected  what the protocol believes of its connection
\* errors.raised     the error as it came, errors.caught what the application catches, NoError before
\* errors.lossTold   an error of class 08 has been caught; errors.byCaller  the application closed the statement
NoError == [class |-> "none", state |-> <<"", "">>, code |-> 0, shown |-> 0]

Interrupted == <<"70", "100">>         \* ER_QUERY_INTERRUPTED
ConnectionException == <<"08", "000">>
SyntaxState == <<"42", "000">>
Unsupported == <<"0A", "000">>
ConnectionKilled == 1927
ServerLost == 2013
LocalInfileDisabled == 1148
ParseError == 1064

\* The server refuses LOCAL INFILE with the state that executeExceptionEpilogue puts in its place.
ASSUME ServerErrorsAssumption ==
  \A error \in ServerErrors : error = <<error[1], error[2]>> /\ (error[2] = LocalInfileDisabled => error[1] = SyntaxState)

-----------------------------------------------------------------------------
(* Exceptions                                                                     *)

\* The constructors keep state and code; shown says how often the message holds the query.
Thrown(class, state, code, shown) == [class |-> class, state |-> state, code |-> code, shown |-> shown]

\* Functions that return an SQLException copy the base of what they were given.
Sliced(e) == [e EXCEPT !.class = "SQLException"]

(* compare("XA") is not compared with 0, so that the classes of the SQL standard   *)
(* behind it are never reached: all but these are syntax errors.                   *)
ClassOf(state) ==
  CASE state = Interrupted -> "SQLTimeoutException"
    [] state[1] = "0A" -> "SQLFeatureNotSupportedException"
    [] state # Interrupted /\ state[1] \notin {"0A", "XA"} -> "SQLSyntaxErrorException"
    [] OTHER -> "SQLTransientConnectionException"

\* create() of every form throws at once: nothing behind a call of it runs.
CreateException(state, code, shown) == Thrown(ClassOf(state), state, code, shown)
Create(cause) == CreateException(cause.state, cause.code, cause.shown)
CreateOfMessage == CreateException(SyntaxState, -1, 0)
NotSupported == CreateException(Unsupported, -1, 0)

-----------------------------------------------------------------------------
(* The query in the message                                                       *)

WithQueryIf(shown, e) == Sliced(IF shown THEN [e EXCEPT !.shown = @ + 1] ELSE e)
\* of a text: the connection is not closed by another thread here
ExceptionWithQuery(options, e) == WithQueryIf(options.dump \/ e.code = ParseError, e)
\* of a prepared statement with its parameters
ExceptionWithParameters(options, e) == WithQueryIf(options.dump, e)
\* of a rewritten batch
ExceptionWithPrepared(options, e) == WithQueryIf(options.dump \/ e.code = ParseError, e)

\* the state and code of the C library, for a statement handle or the connection
ReadErrorPacket(error) == Thrown("SQLException", error[1], error[2], 0)

-----------------------------------------------------------------------------
(* The protocol. A way is how the command was sent.                               *)

\* A killed connection is passed on as it is.
TextError(options, e) ==
  IF e.state = Interrupted /\ e.code = ConnectionKilled THEN e ELSE ExceptionWithQuery(options, e)

\* Bulk execution takes its own SQLException for an I/O error: it is a runtime_error.
IsLoss(way) == way = "bulk"

(* handleIoException declares the connection lost in all of its branches: what is   *)
(* thrown after a successful reconnection is caught by its own handler.             *)
HandleIoException(e) == Thrown("SQLNonTransientConnectionException", ConnectionException, 0, e.shown)

ProtocolError(options, way, e) ==
  CASE way = "text" -> TextError(options, e)
    [] way \in {"oneByOneText", "aggregated"} -> ExceptionWithQuery(options, e)
    [] way = "multiSend" -> e
    [] way \in {"prepared", "oneByOne"} -> ExceptionWithParameters(options, e)
    [] way = "rewritten" -> ExceptionWithPrepared(options, e)
    [] way = "bulk" -> HandleIoException(ExceptionWithQuery(options, e))

\* which one a batch takes depends on options and query
BatchWays(kind) ==
  CASE kind = "text" -> {"oneByOneText", "aggregated", "multiSend"}
    [] kind = "client" -> {"rewritten", "bulk", "oneByOne"}
    [] kind = "server" -> {"bulk", "oneByOne"}
Kinds == {"text", "client", "server"}

-----------------------------------------------------------------------------
(* The statement                                                                  *)

IsConnectionError(e) == e.state[1] = "08"

\* executeExceptionEpilogue; isTimedout is never set, the timer is switched off.
ExecuteExceptionEpilogue(options, e) ==
  IF e.code = LocalInfileDisabled /\ ~options.allowLocalInfile
  THEN CreateException(SyntaxState, LocalInfileDisabled, 0)
  ELSE Create(e)

\* The exception of the batch epilogue is thrown by create, before a BatchUpdateException is made of it.
ExecuteBatchExceptionEpilogue(e) == Create(e)

Deliver(e) ==
  /\ errors.failures < MaxFailures
  /\ errors' = [errors EXCEPT !.caught = e, !.failures = @ + 1, !.way = "none", !.lossTold = @ \/ IsConnectionError(e)]

\* plausible slip: whatever the state
ClosedByAnyError(e) == TRUE
\* a prepared statement closes itself first, the server's also gives up its handle
ClosedByError(e) == errors.closed \/ IsConnectionError(e)
PreparedAfterClose(kind, closes) == errors.prepared /\ ~(kind = "server" /\ closes)

FailsWith(e, closed, prepared, connected, raised, way) ==
  /\ errors.failures < MaxFailures
  /\ errors' = [errors EXCEPT !.caught = e, !.failures = @ + 1, !.lossTold = @ \/ IsConnectionError(e),
                              !.closed = closed, !.prepared = prepared, !.connected = connected,
                              !.raised = raised, !.way = way]

(* executeInternal of a text statement: an error that means the connection is gone *)
(* goes to handleIoException, which throws, so that the epilogue does not run.      *)
MeansLoss(e) == (e.state = Interrupted /\ e.code = ConnectionKilled) \/ e.code = ServerLost
ExecuteText(error) ==
  LET e == ProtocolError(errors.options, "text", ReadErrorPacket(error))
  IN  /\ errors.kind = "text" /\ ~errors.closed
      /\ IF MeansLoss(e)
         THEN FailsWith(HandleIoException(e), FALSE, errors.prepared, FALSE, error, "text")
         ELSE FailsWith(ExecuteExceptionEpilogue(errors.options, e), ClosedByError(e), errors.prepared, errors.connected,
                     error, "text")

ExecutePrepared(error) ==
  LET e == ProtocolError(errors.options, "prepared", ReadErrorPacket(error))
  IN  /\ errors.kind # "text" /\ ~errors.closed
      /\ FailsWith(ExecuteExceptionEpilogue(errors.options, e), ClosedByError(e),
                PreparedAfterClose(errors.kind, IsConnectionError(e)), errors.connected, error, "prepared")

\* Batches close the inner statement only: handleFailoverAndTimeout.
ExecuteBatchFails(error, way) ==
  LET e == ProtocolError(errors.options, way, ReadErrorPacket(error))
  IN  /\ ~errors.closed /\ way \in BatchWays(errors.kind)
      /\ FailsWith(ExecuteBatchExceptionEpilogue(e), ClosedByError(e), errors.prepared,
                errors.connected /\ ~IsLoss(way), error, way)

(* Calls that the statement itself refuses. The server's prepared statement looks   *)
(* at its prepare result before it looks whether it is closed: the application does *)
(* not execute one that has given it up.                                            *)
CheckClose ==
  /\ errors.closed /\ (errors.kind = "server" => errors.prepared)
  /\ Deliver(ExecuteExceptionEpilogue(errors.options, CreateOfMessage))
CallWithSql == errors.kind # "text" /\ Deliver(CreateOfMessage)
UnsupportedCall == errors.kind # "text" /\ Deliver(NotSupported)

CloseByCaller ==
  /\ ~errors.closed
  /\ errors' = [errors EXCEPT !.closed = TRUE, !.prepared = PreparedAfterClose(errors.kind, TRUE), !.byCaller = TRUE]

-----------------------------------------------------------------------------
ErrorsInit == \E kind \in Kinds, dump, infile \in BOOLEAN :
  errors = [kind |-> kind, options |-> [dump |-> dump, allowLocalInfile |-> infile], closed |-> FALSE, prepared |-> TRUE,
            connected |-> TRUE, raised |-> <<>>, way |-> "none", caught |-> NoError, failures |-> 0, lossTold |-> FALSE,
            byCaller |-> FALSE]

ErrorsNext ==
  \/ \E error \in ServerErrors : ExecuteText(error)
  \/ \E error \in ServerErrors : ExecutePrepared(error)
  \/ \E error \in ServerErrors, way \in UNION {BatchWays(k) : k \in Kinds} : ExecuteBatchFails(error, way)
  \/ CheckClose \/ CallWithSql \/ UnsupportedCall \/ CloseByCaller

ErrorsSpec == ErrorsInit /\ [][ErrorsNext]_errors

-----------------------------------------------------------------------------
(* Properties                                                                     *)

\* the last error caught came from the server
OfServer == errors.way # "none"
Lost == errors.caught.state = ConnectionException /\ errors.caught.code = 0 /\ ~errors.connected

(* However often an exception is copied, sliced, wrapped and thrown again between   *)
(* readErrorPacket and the application, the SQL state and the code are the server's, *)
(* an interrupted query arrives as SQLTimeoutException and an unsupported one as     *)
(* SQLFeatureNotSupportedException; or else the connection has been declared lost.   *)
ErrorIsTheServers ==
  OfServer => \/ Lost
              \/ /\ <<errors.caught.state, errors.caught.code>> = errors.raised
                 /\ errors.raised[1] = Interrupted => errors.caught.class = "SQLTimeoutException"
                 /\ errors.raised[1] = Unsupported => errors.caught.class = "SQLFeatureNotSupportedException"

(* A statement closes itself for a lost connection and for nothing else, and an      *)
(* application that has been told of one does not go on with an open statement of a  *)
(* connection that the protocol still believes in.                                   *)
ClosedForAReason ==
  /\ errors.closed => errors.byCaller \/ errors.lossTold
  /\ errors.lossTold => errors.closed \/ ~errors.connected

(* With dumpQueriesOnException the query stands in the message once, whichever       *)
(* layers the error went through; only a killed connection, the sending of several   *)
(* commands at once and the refused LOCAL INFILE do without.                         *)
QueryIsShown ==
  OfServer /\ errors.options.dump =>
    errors.caught.shown = IF \/ errors.way = "multiSend"
                             \/ errors.way = "text" /\ errors.raised = <<Interrupted, ConnectionKilled>>
                             \/ errors.caught.code = LocalInfileDisabled /\ errors.way \in {"text", "prepared"}
                                  /\ ~errors.options.allowLocalInfile
                          THEN 0 ELSE 1

(* Through all the layers an error passes, the application is told the server's,     *)
(* with its query, and loses its connection only for one that says so.               *)
ErrorsAreTold == ErrorIsTheServers /\ ClosedForAReason /\ QueryIsShown
=============================================================================
