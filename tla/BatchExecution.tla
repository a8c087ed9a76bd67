--------------------------- MODULE BatchExecution ---------------------------
(***************************************************************************)
(* executeBatch: of a MariaDbStatement ("text"), of a client-side and of a *)
(* server-side prepared statement, in every way QueryProtocol has to run a *)
(* batch.  The query of a prepared statement has one parameter.            *)
(*                                                                         *)
(*   single     one command a row           multi      the same, no catch  *)
(*   values     INSERT ... VALUES (..),(..) semicolon  queries joined by ; *)
(*   aggregate  the same for text           bulk       one bulk operation  *)
(*                                                                         *)
(* A step is a command and its answers.  The server refuses some rows      *)
(* (bad), and the connection may be lost between two commands.             *)
(***************************************************************************)
EXTENDS ParameterHolders, UpdateCounts, FiniteSets

CONSTANTS Confs,       \* side and options, see ConfType
          Queries,     \* what the scanners say of the query, and the holders its rows set
          MaxRows,     \* bound: rows added
          MaxBad,      \* bound: rows the server refuses
          MaxPacket    \* MAX_PACKET_LENGTH, in the units of the holders' lengths

ConfType == [side : {"text", "client", "server"}, rewriteBatchedStatements : BOOLEAN,
             useBulkStmts : BOOLEAN, useBatchMultiSend : BOOLEAN,
             continueBatchOnError : BOOLEAN, keys : BOOLEAN, bulkCapable : BOOLEAN]
QueryType == [values : BOOLEAN, multi : BOOLEAN, select : BOOLEAN, unbulkable : BOOLEAN]
Said(q) == [values |-> q.values, multi |-> q.multi, select |-> q.select, unbulkable |-> q.unbulkable]

ASSUME BatchAssumption ==
  /\ Confs \subseteq ConfType /\ \A q \in Queries : Said(q) \in QueryType
  /\ MaxRows \in Nat /\ MaxBad \in Nat /\ MaxPacket \in Nat

VARIABLES conf, query,
          param,       \* parameters: the holder that is set, or NotSet
          batch,       \* parameterList or batchQueries
          hasLongData, \* one of the parameters set since clearParameters is a stream
          exec,        \* the execution under way
          table,       \* the rows the server has applied: id and value
          read,        \* rows whose stream was read
          alive,       \* the connection to the server
          connected,   \* what the protocol believes
          ran,         \* the batch was executed and not cleared since
          told         \* how the last execution ended

batchVars == <<conf, query, param, batch, hasLongData, exec, table, read, alive, connected, ran, told>>

NotSet == [holder |-> NullParameter, stream |-> 0]
Idle == [way |-> <<>>, at |-> 0, info |-> NoInformation, failed |-> FALSE, begun |-> 0]
NotTold == [rows |-> <<>>, how |-> "nothing", counts |-> <<>>, way |-> "none"]

BatchInit ==
  /\ conf \in Confs /\ query \in Queries
  /\ param = NotSet /\ batch = <<>> /\ hasLongData = FALSE
  /\ exec = Idle /\ table = <<>> /\ read = {} /\ alive = TRUE /\ connected = TRUE
  /\ ran = FALSE /\ told = NotTold

NextId == IF batch # <<>> THEN batch[Len(batch)].id + 1
          ELSE IF told.rows # <<>> THEN told.rows[Len(told.rows)].id + 1 ELSE 1

-----------------------------------------------------------------------------
(* setParameter, clearParameters, addBatch, clearBatch.                    *)
SetParameter(h) ==
  /\ exec = Idle /\ conf.side # "text" /\ ~ran /\ NextId <= MaxRows
  /\ param' = [holder |-> h, stream |-> NextId]
  /\ hasLongData' = (hasLongData \/ h.long)
  /\ UNCHANGED <<conf, query, batch, exec, table, read, alive, connected, ran, told>>

(* clearParameters forgets the long data; the batch may still hold some,   *)
(* so it is called with an empty batch only (ClearedEarly).                *)
ClearParameters ==
  /\ exec = Idle /\ conf.side # "text" /\ param # NotSet /\ batch = <<>>
  /\ param' = NotSet /\ hasLongData' = FALSE
  /\ UNCHANGED <<conf, query, batch, exec, table, read, alive, connected, ran, told>>

(* The row gets a clone of the holder: the values are kept, so a row may   *)
(* be added again with the same stream.                                    *)
AddBatch(bad, joinable) ==
  /\ exec = Idle /\ ~ran /\ NextId <= MaxRows
  /\ IF conf.side = "text" THEN param = NotSet ELSE param # NotSet
  /\ joinable \/ conf.side = "text"
  /\ bad => Cardinality({i \in DOMAIN batch : batch[i].bad}) < MaxBad
  /\ batch' = Append(batch, [id |-> NextId, bad |-> bad, joinable |-> joinable,
                             holder |-> IF param = NotSet THEN StringParameter(1) ELSE param.holder,
                             stream |-> IF param = NotSet THEN 0 ELSE param.stream])
  /\ UNCHANGED <<conf, query, param, hasLongData, exec, table, read, alive, connected, ran, told>>

ClearBatch ==
  /\ exec = Idle /\ batch # <<>>
  /\ batch' = <<>> /\ ran' = FALSE
  /\ told' = [told EXCEPT !.rows = batch, !.how = "cleared", !.counts = <<>>]
  /\ UNCHANGED <<conf, query, param, hasLongData, exec, table, read, alive, connected>>

-----------------------------------------------------------------------------
(* executeBatchClient, executeBatchServer, executeBatchStmt and            *)
(* executeInternalBatch: the ways to try, in order.                        *)
OneByOne == IF conf.useBatchMultiSend THEN "multi" ELSE "single"
TryBulk == IF conf.useBulkStmts /\ ~hasLongData /\ ~conf.keys THEN <<"bulk">> ELSE <<>>

ClientWays ==
  CASE conf.rewriteBatchedStatements /\ query.values /\ ~conf.keys -> <<"values">>
    [] conf.rewriteBatchedStatements /\ ~(query.values /\ ~conf.keys) /\ query.multi ->
         Append(TryBulk, "semicolon")
    [] OTHER -> Append(TryBulk, OneByOne)
ServerWays == Append(TryBulk, OneByOne)
StatementWays ==
  IF conf.rewriteBatchedStatements /\ \A i \in DOMAIN batch : batch[i].joinable
  THEN <<"aggregate">> ELSE <<OneByOne>>
Ways == CASE conf.side = "client" -> ClientWays
          [] conf.side = "server" -> ServerWays
          [] OTHER -> StatementWays

(* executeBatch up to the first command; Results expects a count for every *)
(* row.  The application clears the batch of a prepared statement itself   *)
(* before it runs another: the code keeps it (ran).                        *)
ExecuteBatch ==
  /\ exec = Idle /\ batch # <<>> /\ connected /\ ~ran
  /\ exec' = [way |-> Ways, at |-> 1, info |-> NoInformation, failed |-> FALSE,
              begun |-> Len(table)]
  /\ told' = [NotTold EXCEPT !.rows = batch]
  /\ UNCHANGED <<conf, query, param, batch, hasLongData, table, read, alive, connected, ran>>

Running(way) == exec # Idle /\ exec.way # <<>> /\ Head(exec.way) = way

(* The epilogues: a statement's queries are dropped, a prepared            *)
(* statement's parameters stay.                                            *)
Finish(how, info) ==
  /\ exec' = Idle
  /\ told' = [told EXCEPT !.how = how, !.way = Head(exec.way),
                !.counts = IF how = "counts" THEN GetUpdateCounts(info) ELSE <<>>]
  /\ batch' = IF conf.side = "text" THEN <<>> ELSE batch
  /\ ran' = (conf.side # "text")
  /\ UNCHANGED <<conf, query, param, hasLongData, alive>>

Continue(e) == /\ exec' = e
               /\ UNCHANGED <<conf, query, param, batch, hasLongData, alive, connected, ran, told>>

(* Results::addStats for a batch.                                          *)
Begun(info) == IF info = NoInformation THEN NewInformation("batch", Len(batch)) ELSE info
Noted(info, count) == AddSuccessStat(Begun(info), count, 0)

(* The answers to n queries of one command, a row changed by each.         *)
NotedEach(info, n) ==
  [Begun(info) EXCEPT !.counts = @ \o [k \in 1 .. n |-> 1], !.ids = @ \o [k \in 1 .. n |-> 0]]

(* The server applies rows a to b, each with the value it was sent.        *)
ValueSent(row, form) ==
  IF row.holder.long /\ row.stream \in read THEN Null
  ELSE CASE form = "text" -> SentText(row.holder)
         [] form = "binary" -> SentBinary(row.holder)
         [] OTHER -> SentBulk(row.holder, batch[1].holder)
Apply(a, b, form) ==
  /\ table' = table \o [i \in 1 .. b - a + 1 |->
                          [id |-> batch[a + i - 1].id, value |-> ValueSent(batch[a + i - 1], form)]]
  /\ read' = read \cup {batch[i].stream : i \in {j \in a .. b : batch[j].holder.long}}
ApplyNothing == UNCHANGED <<table, read>>

-----------------------------------------------------------------------------
(* executeBatch, executeInternalBatch, executePreparedQuery: one row.      *)
(* realQuery or mysql_stmt_execute throws a refused row's error, so        *)
(* Results is told nothing of it.  The loop of a server-side statement     *)
(* means to keep the error and does not (failed stays FALSE).              *)
Form == IF conf.side = "server" THEN "binary" ELSE "text"
KeepsError == conf.side # "server"

(* The end of the loops: the error that was kept is thrown.                *)
EndOfLoop(e) ==
  IF e.failed THEN Finish("thrown", e.info)
  ELSE IF e.info = NoInformation THEN Finish("null", e.info)
  ELSE Finish("counts", e.info)

AfterRow(e) ==
  IF e.at < Len(batch) THEN Continue([e EXCEPT !.at = @ + 1])
  ELSE EndOfLoop(e) /\ UNCHANGED connected

RunSingle ==
  /\ Running("single")
  /\ LET row == batch[exec.at]
     IN  IF alive /\ ~row.bad
         THEN Apply(exec.at, exec.at, Form) /\ AfterRow([exec EXCEPT !.info = Noted(@, 1)])
         ELSE /\ ApplyNothing
              /\ IF conf.continueBatchOnError
                 THEN AfterRow([exec EXCEPT !.failed = @ \/ KeepsError])
                 ELSE Finish("thrown", exec.info) /\ UNCHANGED connected

(* useBatchMultiSend: the error of a row ends the batch.                   *)
RunMulti ==
  /\ Running("multi")
  /\ IF alive /\ ~batch[exec.at].bad
     THEN Apply(exec.at, exec.at, Form) /\ AfterRow([exec EXCEPT !.info = Noted(@, 1)])
     ELSE ApplyNothing /\ Finish("thrown", exec.info) /\ UNCHANGED connected

-----------------------------------------------------------------------------
(* rewriteQuery and assembleBatchAggregateSemiColonQuery: the last row of  *)
(* the packet that begins with row a.  The first row goes in whatever its  *)
(* length; a row of unknown length is the last.                            *)
RowLength(i) == 1 + (IF batch[i].holder.length = -1 THEN 0 ELSE batch[i].holder.length)
LengthOf(a, b) ==
  LET sum[i \in a - 1 .. b] == IF i = a - 1 THEN 0 ELSE sum[i - 1] + RowLength(i) IN  sum[b]

PacketEnd(a) ==
  LET fits == {b \in a .. Len(batch) : \A k \in a + 1 .. b :
                 /\ batch[k].holder.length # -1 => LengthOf(a, k) < MaxPacket
                 /\ batch[k].holder.length = -1 => k = b}
  IN  CHOOSE b \in fits : \A c \in fits : c <= b

(* Mutant: the row that did not fit is taken for sent.                     *)
AfterPacketSkips(e, b) ==
  IF b + 1 < Len(batch) THEN Continue([e EXCEPT !.at = b + 2])
  ELSE /\ EndOfLoop([e EXCEPT !.info.rewritten = Head(e.way) \in {"values", "bulk"}])
       /\ UNCHANGED connected

(* rewritten is set whether the batch ends well or not.                    *)
AfterPacket(e, b) ==
  IF b < Len(batch) THEN Continue([e EXCEPT !.at = b + 1])
  ELSE /\ EndOfLoop([e EXCEPT !.info.rewritten = Head(e.way) \in {"values", "bulk"}])
       /\ UNCHANGED connected

(* executeBatchRewrite with rewriteValues: one statement, all or nothing.  *)
RunValues ==
  /\ Running("values")
  /\ LET b == PacketEnd(exec.at)
     IN  IF alive /\ \A i \in exec.at .. b : ~batch[i].bad
         THEN /\ Apply(exec.at, b, "text")
              /\ AfterPacket([exec EXCEPT !.info = Noted(@, b - exec.at + 1)], b)
         ELSE ApplyNothing /\ Finish("thrown", exec.info) /\ UNCHANGED connected

(* Queries joined by semicolons: the server stops at the first it refuses. *)
(* A prepared statement's batch ends there; a statement's goes on with the *)
(* next packet under continueBatchOnError.                                 *)
RunSemicolon(way) ==
  /\ Running(way)
  /\ LET b == PacketEnd(exec.at)
         bad == {i \in exec.at .. b : batch[i].bad}
         stop == IF bad = {} THEN b ELSE (CHOOSE i \in bad : \A j \in bad : i <= j) - 1
     IN  /\ IF alive THEN Apply(exec.at, stop, "text") ELSE ApplyNothing
         /\ CASE alive /\ bad = {} -> AfterPacket([exec EXCEPT !.info = NotedEach(@, b - exec.at + 1)], b)
              [] ~(alive /\ bad = {}) /\ way = "aggregate" /\ conf.continueBatchOnError
                   /\ b < Len(batch) ->
                   Continue([exec EXCEPT !.at = b + 1, !.failed = TRUE])
              [] OTHER -> Finish("thrown", exec.info) /\ UNCHANGED connected

-----------------------------------------------------------------------------
(* Mutant: any error of a bulk makes the next way be tried.                *)
RunBulkFallsBack ==
  /\ Running("bulk")
  /\ LET hs == [i \in DOMAIN batch |-> batch[i].holder]
         bad == {i \in DOMAIN batch : batch[i].bad}
         next == [exec EXCEPT !.way = Tail(@)]
     IN  IF bad = {} THEN /\ Apply(1, Len(batch), "bulk")
                          /\ AfterPacket([exec EXCEPT !.info = Noted(@, Len(batch))], Len(batch))
         ELSE Continue(next) /\ Apply(1, (CHOOSE i \in bad : \A j \in bad : i <= j) - 1, "bulk")

(* executeBulkBatch: tried only where it can be used; left to the next way *)
(* when the server says that it cannot be (1295).  Any other error passes  *)
(* for one of the connection: handleIoException closes it.                 *)
RunBulk ==
  /\ Running("bulk")
  /\ LET hs == [i \in DOMAIN batch |-> batch[i].holder]
         bad == {i \in DOMAIN batch : batch[i].bad}
         usable == conf.bulkCapable /\ BulkTypesAgree(hs) /\ ~query.select
         next == [exec EXCEPT !.way = Tail(@)]
     IN  CASE ~usable -> Continue(next) /\ ApplyNothing
           [] usable /\ alive /\ query.unbulkable -> Continue(next) /\ ApplyNothing
           [] usable /\ alive /\ ~query.unbulkable /\ bad = {} ->
                /\ Apply(1, Len(batch), "bulk")
                /\ AfterPacket([exec EXCEPT !.info = Noted(@, Len(batch))], Len(batch))
           [] OTHER ->
                /\ \/ ApplyNothing
                   \/ alive /\ bad # {} /\ Apply(1, (CHOOSE i \in bad : \A j \in bad : i <= j) - 1, "bulk")
                /\ connected' = FALSE
                /\ Finish("thrown", exec.info)

(* The connection is lost; the next command finds out.                     *)
Lose ==
  /\ alive /\ exec # Idle
  /\ alive' = FALSE
  /\ UNCHANGED <<conf, query, param, batch, hasLongData, exec, table, read, connected, ran, told>>

BatchNext ==
  \/ \E h \in query.holders : SetParameter(h)
  \/ ClearParameters \/ ClearBatch \/ ExecuteBatch
  \/ \E bad \in BOOLEAN, joinable \in BOOLEAN : AddBatch(bad, joinable)
  \/ RunSingle \/ RunMulti \/ RunValues \/ RunBulk
  \/ \E way \in {"semicolon", "aggregate"} : RunSemicolon(way)
  \/ Lose

BatchSpec == BatchInit /\ [][BatchNext]_batchVars

-----------------------------------------------------------------------------
(* The server applies each row of a batch once and in the order they were  *)
(* added, also when a bulk operation is given up for another way           *)
(* (executeBatchClient, executeBulkBatch, rewriteQuery).                   *)
RowsOnceInOrder ==
  \A i, j \in DOMAIN table : i < j => table[i].id < table[j].id

(* A batch that ends without an exception was applied to the last row, and *)
(* its update counts say so: one for each row, none of them a failure.     *)
(* Not so for a server-side statement that runs row by row under           *)
(* continueBatchOnError, which loses the error (executeBatchInternal).     *)
LosesErrors ==
  conf.side = "server" /\ conf.continueBatchOnError /\ told.way = "single"
Applied(id) == \E i \in DOMAIN table : table[i].id = id
SuccessIsTheTruth ==
  told.how \in {"counts", "null"} /\ ~LosesErrors =>
    /\ told.how = "counts"
    /\ Len(told.counts) = Len(told.rows)
    /\ \A i \in DOMAIN told.rows : Applied(told.rows[i].id) /\ told.counts[i] # EXECUTE_FAILED

(* A failure is not passed over: without continueBatchOnError no row after *)
(* a refused one is applied; with it every other row is, when the rows are *)
(* sent one by one (executeBatch, executeInternalBatch).                   *)
FailureIsHandled ==
  LET rows == told.rows
      badAt == {i \in DOMAIN rows : rows[i].bad}
  IN  /\ told.how = "thrown" /\ ~conf.continueBatchOnError =>
           \A i \in badAt, j \in DOMAIN rows : i <= j => ~Applied(rows[j].id)
      /\ told.how = "thrown" /\ conf.continueBatchOnError /\ told.way = "single" /\ alive =>
           \A i \in DOMAIN rows : Applied(rows[i].id) = ~rows[i].bad

(* The server gets the value that was set, in the text of a query, in a    *)
(* bind and in a bulk alike; except those ParameterHolders lists, and a    *)
(* stream that was set for a row before.                                   *)
RowOf(id) == LET i == CHOOSE i \in DOMAIN told.rows : told.rows[i].id = id IN  told.rows[i]
ValuesArriveAsSet ==
  \A i \in DOMAIN table :
    (\E k \in DOMAIN told.rows : told.rows[k].id = table[i].id) =>
      LET row == RowOf(table[i].id)
          h == row.holder
          first == told.rows[1].holder
          shared == h.long /\ row.stream # row.id
      IN  \/ table[i].value = h.set
          \/ shared
          \/ ~ExactAsText(h) /\ conf.side # "server"
          \/ ~ExactAsBinary(h) /\ conf.side = "server"
          \/ ~ExactInBulk(h, first) /\ conf.useBulkStmts

(* After a batch the application knows which rows were applied, by its     *)
(* counts if it succeeded, by its exception and its options if it did not. *)
OutcomeIsTold == SuccessIsTheTruth /\ FailureIsHandled
=============================================================================
