------------------------- MODULE StatementSettings --------------------------
(* What an application sets on a MariaDbStatement and what its executions are run    *)
(* with: the type of result, fetch size, row and time limit, generated keys, the      *)
(* batch of texts and closeOnCompletion. The statements share one session, and with   *)
(* it the row limit SQL_SELECT_LIMIT, which the protocol remembers.                   *)
EXTENDS Integers, Sequences

CONSTANTS Handles,            \* statements of the connection
          DefaultFetchSize,   \* the option defaultFetchSize
          ServerTimeouts,     \* whether the server knows max_statement_time
          MaxSteps            \* bound: calls of the application

ASSUME SettingsAssumption ==
  DefaultFetchSize \in Nat /\ ServerTimeouts \in BOOLEAN /\ MaxSteps \in Nat /\ "nobody" \notin Handles

Scrolls == {"forward", "insensitive"}
MinInt == -2147483647 - 1

VARIABLE board
\* board.limit      SQL_SELECT_LIMIT of the session, 0 for the default; known: what the protocol has sent
\* board.stale      the session was reset and the protocol has not sent a limit since
\* board.of         the settings and the results of each statement: current is the result set it owns, released the one
\*                  the application has, 0 for none
\* board.sets       the result sets so far: [by, closed]
\* board.ran        texts of batches that the server has run; steps: calls so far
\* board.did        the last execution: the statement, and what it was run with
Nobody == [by |-> "nobody"]

WithResultSetType(s, type) == [s EXCEPT !.scroll = type, !.fetchSize = IF type = "forward" THEN @ ELSE 0]
NewStatement(type) ==
  WithResultSetType([scroll |-> type, fetchSize |-> DefaultFetchSize, maxRows |-> 0, queryTimeout |-> 0, batch |-> <<>>,
                     closeOnCompletion |-> FALSE, closed |-> FALSE, current |-> 0, released |-> 0], type)

Step == board.steps < MaxSteps
Stepped(b) == [b EXCEPT !.steps = @ + 1, !.did = Nobody]
\* a setter leaves the rest alone; an exception leaves everything alone
Changed(h, s) == Step /\ board' = [Stepped(board) EXCEPT !.of[h] = s]

-----------------------------------------------------------------------------
(* Setters. None of them asks whether the statement is closed.                      *)

SetResultSetType(h, type) == Changed(h, WithResultSetType(board.of[h], type))
SetFetchSize(h, rows) ==
  LET refused == (rows < 0 /\ rows # MinInt) \/ (rows # 0 /\ board.of[h].scroll # "forward")
  IN  Changed(h, IF refused THEN board.of[h] ELSE [board.of[h] EXCEPT !.fetchSize = IF rows = MinInt THEN 1 ELSE rows])
SetMaxRows(h, max) == Changed(h, IF max < 0 THEN board.of[h] ELSE [board.of[h] EXCEPT !.maxRows = max])
SetQueryTimeout(h, seconds) ==
  Changed(h, IF seconds < 0 THEN board.of[h] ELSE [board.of[h] EXCEPT !.queryTimeout = seconds])
CloseOnCompletion(h) == Changed(h, [board.of[h] EXCEPT !.closeOnCompletion = TRUE])
\* the number of the step stands for the text
AddBatch(h) == Changed(h, [board.of[h] EXCEPT !.batch = Append(@, board.steps)])
ClearBatch(h) == Changed(h, [board.of[h] EXCEPT !.batch = <<>>])

-----------------------------------------------------------------------------
(* Executions                                                                     *)

\* plausible slip: no limit needs no statement
SentLimit(max) == [board EXCEPT !.limit = IF max = 0 THEN @ ELSE max, !.known = max, !.stale = FALSE]
\* prolog: a SET statement if the limit is another one than the protocol sent last
ProtocolSetMaxRows(max) ==
  IF board.known = max THEN board ELSE [board EXCEPT !.limit = max, !.known = max, !.stale = FALSE]

\* There is no timer: without the server's help a time limit has no effect.
GetTimeoutSql(s) == IF ServerTimeouts THEN s.queryTimeout ELSE 0

\* checkCloseOnCompletion: the result set of the statement is the one it owns, or else the one it has handed out
ResultSetOf(s) == IF s.current # 0 THEN s.current ELSE s.released
\* plausible slip: any result set closes its statement
CompletesWithAny(s, k) == s.closeOnCompletion /\ ~s.closed
Completes(s, k) == s.closeOnCompletion /\ ~s.closed /\ k = ResultSetOf(s)
CloseSets(b, ks) == [b EXCEPT !.sets = [i \in 1..Len(@) |-> IF i \in ks THEN [@[i] EXCEPT !.closed = TRUE] ELSE @[i]]]
Closed(b, h) ==
  [CloseSets(b, {b.of[h].released}) EXCEPT !.of[h] = [@ EXCEPT !.closed = TRUE, !.released = 0]]
CloseResult(b, k) ==
  LET h == b.sets[k].by
      done == CloseSets(b, {k})
  IN  IF Completes(b.of[h], k) THEN Closed(done, h) ELSE done

\* The results of the last execution are replaced, and then destroyed: that closes the set that was handed out.
NewResults(b, h) ==
  LET old == b.of[h].released
      fresh == [b EXCEPT !.of[h].current = 0, !.of[h].released = 0]
  IN  IF old = 0 \/ b.sets[old].closed THEN fresh ELSE CloseResult(fresh, old)
ReleaseResultSet(b, h) == [b EXCEPT !.of[h].released = b.of[h].current, !.of[h].current = 0]
WithRows(b, h) ==
  [b EXCEPT !.sets = Append(@, [by |-> h, closed |-> FALSE]), !.of[h].current = Len(b.sets) + 1]

Ran(h, batch, limit, time, size, keys) ==
  [by |-> h, batch |-> batch, limit |-> limit, time |-> time, fetchSize |-> size, scroll |-> board.of[h].scroll, keys |-> keys]
\* executeInternal of a statement that is open; the server answers with rows, with a count or with an error
ExecuteInternal(h, keys, answer) ==
  LET s == board.of[h]
      b == NewResults(ProtocolSetMaxRows(s.maxRows), h)
      done == [Stepped(b) EXCEPT !.did = Ran(h, FALSE, b.limit, GetTimeoutSql(s), s.fetchSize, keys)]
  IN  IF answer = "rows" THEN WithRows(done, h) ELSE done

\* The forms with an array of columns ask for the keys.
AsksForKeys(form) == form \in {"keys", "columns", "names"}
Executes(h, form, answer) ==
  /\ Step /\ ~board.of[h].closed
  /\ board' = ExecuteInternal(h, AsksForKeys(form), answer)
\* executeQuery hands the set out; executeUpdate refuses rows when the statement has run
ExecuteQuery(h, answer) ==
  /\ Step /\ ~board.of[h].closed
  /\ board' = ReleaseResultSet(ExecuteInternal(h, FALSE, answer), h)
ExecuteUpdate(h, form, answer) ==
  /\ Step /\ ~board.of[h].closed
  /\ board' = ExecuteInternal(h, AsksForKeys(form), answer)
GetResultSet(h) ==
  /\ Step /\ ~board.of[h].closed /\ board.of[h].current # 0
  /\ board' = ReleaseResultSet(Stepped(board), h)

\* executeBatchEpilogue, after the last text or after the first that fails
BatchEpilogue(s, ran) == [s EXCEPT !.batch = <<>>]
ExecuteBatch(h) ==
  LET s == board.of[h]
      b == NewResults(ProtocolSetMaxRows(s.maxRows), h)
  IN  /\ Step /\ ~s.closed /\ s.batch # <<>>
      /\ \E n \in 0..Len(s.batch) :
           board' = [Stepped(b) EXCEPT !.ran = @ \o SubSeq(s.batch, 1, n), !.of[h] = BatchEpilogue(@, n),
                                       !.did = Ran(h, TRUE, b.limit, 0, 0, TRUE)]

CloseByCall(h) == Step /\ ~board.of[h].closed /\ board' = Closed(Stepped(board), h)
\* the application closes a set that it was given
CloseResultSet(k) ==
  /\ Step /\ ~board.sets[k].closed /\ k # board.of[board.sets[k].by].current
  /\ board' = CloseResult(Stepped(board), k)

\* The connection goes back to the pool with COM_RESET_CONNECTION: a new session for the next user and new statements.
ResetByPool ==
  /\ Step
  /\ board' = [Stepped(board) EXCEPT !.limit = 0, !.stale = board.known # 0 \/ board.stale,
                                     !.of = [h \in Handles |-> NewStatement("forward")],
                                     !.sets = [i \in 1..Len(@) |-> [@[i] EXCEPT !.closed = TRUE]]]

-----------------------------------------------------------------------------
SettingsInit ==
  \E type \in Scrolls :
    board = [limit |-> 0, known |-> 0, stale |-> FALSE, of |-> [h \in Handles |-> NewStatement(type)], sets |-> <<>>,
             ran |-> <<>>, steps |-> 0, did |-> Nobody]

LimitsNext ==
  \/ ResetByPool
  \/ \E h \in Handles :
       \/ \E type \in Scrolls : SetResultSetType(h, type)
       \/ \E rows \in {MinInt, -1, 0, 2} : SetFetchSize(h, rows)
       \/ \E n \in {-1, 0, 1} : SetMaxRows(h, n)
       \/ \E n \in {-1, 3} : SetQueryTimeout(h, n)
       \/ \E form \in {"plain", "columns"} : ExecuteUpdate(h, form, "count")
LifeNext ==
  \/ \E k \in 1..Len(board.sets) : CloseResultSet(k)
  \/ \E h \in Handles :
       \/ CloseOnCompletion(h) \/ AddBatch(h) \/ ClearBatch(h) \/ GetResultSet(h) \/ ExecuteBatch(h) \/ CloseByCall(h)
       \/ \E answer \in {"rows", "error"} : Executes(h, "plain", answer) \/ ExecuteQuery(h, answer)
SettingsNext == LimitsNext \/ LifeNext

SettingsSpec == SettingsInit /\ [][SettingsNext]_board

-----------------------------------------------------------------------------
(* Properties                                                                     *)

(* Every execution runs under the limits of its own statement, whatever the other    *)
(* statements of the connection have set or executed: the session's row limit is     *)
(* the statement's, and so is the time limit of a statement that is not a batch.     *)
(* (After COM_RESET_CONNECTION the protocol still believes in the limit of the last   *)
(* user until another one is set.)                                                    *)
LimitsAreItsOwn ==
  board.did.by \in Handles =>
    LET s == board.of[board.did.by]
    IN  /\ board.did.limit = s.maxRows \/ board.stale
        /\ ServerTimeouts /\ ~board.did.batch => board.did.time = s.queryTimeout

(* Rows are streamed only to a result that goes forward, in whichever order type and  *)
(* fetch size were set, and whatever the default of the options is.                    *)
StreamsGoForward == board.did.by \in Handles /\ board.did.fetchSize # 0 => board.did.scroll = "forward"

(* A text that was added to a batch is run once at most: not by this batch and then   *)
(* again by the next one, after a success as after a failure.                          *)
BatchRunsOnce == \A i, j \in 1..Len(board.ran) : board.ran[i] = board.ran[j] => i = j

(* With closeOnCompletion the statement is closed with the result set of its last      *)
(* execution, and by nothing else: not by a set of an earlier execution, nor when it   *)
(* is executed again while such a set is open.                                         *)
CompletionCloses ==
  [][\A h \in Handles :
       LET s == board.of[h]
           ended == s.released # 0 /\ s.current = 0 /\ ~board.sets[s.released].closed /\ board'.sets[s.released].closed
       IN  /\ s.closeOnCompletion /\ ended /\ board'.did = Nobody /\ board'.of[h].closeOnCompletion => board'.of[h].closed
           /\ ~s.closed /\ board'.of[h].closed => ended \/ CloseByCall(h)]_board

(* Statements of one connection do not run under each other's settings, nor a batch    *)
(* under what an earlier one left.                                                     *)
StatementsKeepApart == LimitsAreItsOwn /\ StreamsGoForward /\ BatchRunsOnce
=============================================================================
