-------------------------- MODULE StatementResults --------------------------
(***************************************************************************)
(* Two statements that share a connection: MariaDbStatement, Results, and  *)
(* the part of QueryProtocol and ConnectProtocol that reads the answers of *)
(* a command off the connection.                                           *)
(*                                                                         *)
(* The answers of a command are a sequence of parts: OkPart an update      *)
(* count, ErrPart an error, a positive number a result set of so many      *)
(* rows.  The connection is a record, since one call nests into another (a *)
(* command of one statement reads the rest of the other's):                *)
(*                                                                         *)
(*   wire    the parts the server has still to send                        *)
(*   more    the MORE_RESULTS bit of serverStatus                          *)
(*   active  activeStreamingResult: a statement's Results, Gone for one    *)
(*           that was destroyed, Nobody                                    *)
(*   res     per statement its Results, sets its result sets by part       *)
(*   fault   what went wrong for good, "none" while nothing did            *)
(*                                                                         *)
(* A call holds the connection's mutex where the code locks it; the mutex  *)
(* is not recursive, so locking it twice in one call is the fault          *)
(* "selfLock".                                                             *)
(***************************************************************************)
EXTENDS UpdateCounts, FiniteSets

CONSTANTS Stmts,        \* the statements
          Scripts,      \* the answers commands may have
          StreamSizes,   \* fetch sizes of the statements
          Careful       \* the application keeps the rules of OwnStreamIsRead

OkPart == 0
ErrPart == -1

Nobody == "nobody"
Gone == "gone"

\* a command has an answer, and none comes after an error
ASSUME ResultsAssumption ==
  /\ IsFiniteSet(Stmts) /\ Nobody \notin Stmts /\ Gone \notin Stmts
  /\ StreamSizes \subseteq Nat
  /\ Scripts \subseteq Seq(Int) \ {<<>>}
  /\ \A script \in Scripts : \A n \in DOMAIN script : script[n] = ErrPart => n = Len(script)
  /\ Careful \in BOOLEAN

VARIABLES st,      \* the connection
          heard    \* per statement: the answers of its command, and the ones shown

resultsVars == <<st, heard>>

(***************************************************************************)
(* Result sets: unread rows, the fetch size, closed.                       *)
(***************************************************************************)
Unread(c) == \E s \in Stmts : \E k \in DOMAIN c.sets[s] : ~c.sets[s][k].isEof

(* removeActiveStreamingResult.                                            *)
RemoveActive(c) ==
  IF c.active \in Stmts
  THEN [c EXCEPT !.res[c.active].fetchSize = 0, !.active = Nobody]
  ELSE IF c.active = Gone THEN [c EXCEPT !.fault = "useAfterFree"] ELSE c

(* The end of a result set's rows, in readNextValue.                       *)
EndOfRows(c, s, k) ==
  LET e == [c EXCEPT !.sets[s][k].isEof = TRUE, !.sets[s][k].left = 0,
                     !.more = c.wire # <<>>]
  IN  IF e.more THEN e ELSE RemoveActive(e)

(* addStreamingValue; the end shows only to a fetch beyond the last row.   *)
AddStreamingRow(c, s, k) ==
  LET r == c.sets[s][k]
  IN  IF r.left >= r.fetchSize THEN [c EXCEPT !.sets[s][k].left = @ - r.fetchSize]
      ELSE EndOfRows(c, s, k)

(* fetchRemaining, and the destructor of a result set.                     *)
ReadRest(c, s, k) == IF c.sets[s][k].isEof THEN c ELSE EndOfRows(c, s, k)

(* realClose: an unread stream is read under the mutex.                    *)
CloseSet(c, s, k, locked) ==
  LET d == ReadRest(c, s, k)
      left == [d EXCEPT !.sets[s][k].isClosed = TRUE,
                        !.res[s].released = IF @ = k THEN 0 ELSE @]
  IN  IF locked /\ ~c.sets[s][k].isEof THEN [c EXCEPT !.fault = "selfLock"] ELSE left

(***************************************************************************)
(* Results: what it learns of every answer.                                *)
(***************************************************************************)
NewCommand(size) == [made |-> TRUE, fetchSize |-> size, inWire |-> FALSE,
                     caching |-> FALSE, cmd |-> NoInformation,
                     exec |-> <<>>, current |-> 0, released |-> 0]

NoResults == [NewCommand(0) EXCEPT !.made = FALSE]

(* The beginning of addStats, addStatsError and addResultSet.              *)
NoteWire(c, s, more) ==
  LET r == c.res[s]
      d == IF r.inWire /\ ~more /\ r.fetchSize = 0 THEN RemoveActive(c) ELSE c
  IN  [d EXCEPT !.res[s].inWire = more]

(* Their end: a record for one answer, or a list for several, to which the *)
(* answer is added.                                                        *)
ListOf(c, s) == IF c.res[s].cmd.kind = "none" THEN NewInformation("multiple", 1) ELSE c.res[s].cmd
NoteAnswer(c, s, single, added, more) ==
  [c EXCEPT !.res[s].cmd = IF @.kind = "none" /\ ~more THEN single ELSE added]

AddStats(c, s, more) ==
  LET n == NoteWire(c, s, more)
  IN  NoteAnswer(n, s, SingleInformation(0, 1), AddSuccessStat(ListOf(n, s), 1, 0), more)

AddStatsError(c, s) ==
  LET n == NoteWire(c, s, FALSE)
  IN  NoteAnswer(n, s, SingleInformation(0, EXECUTE_FAILED), AddErrorStat(ListOf(n, s)), FALSE)

Cached(c, s, k) == IF c.res[s].caching THEN ReadRest(c, s, k) ELSE c
NoteResultSet(c, s, more) ==
  NoteAnswer(c, s, SingleInformation(0, RESULT_SET_VALUE), AddResultSetStat(ListOf(c, s)), more)
AddResultSet(c, s, k, more) ==
  NoteResultSet(Cached([NoteWire(c, s, more) EXCEPT !.res[s].exec = Append(@, k)], s, k), s, more)

(***************************************************************************)
(* Reading one answer: readPacket, readOkPacket, readResultSet,            *)
(* readErrorPacket.  raised says that the call throws.                     *)
(***************************************************************************)
ReadOkPacket(c, s) == AddStats([c EXCEPT !.more = c.wire # <<>>], s, c.wire # <<>>)

ReadErrorPacket(c, s) ==
  [RemoveActive(AddStatsError([c EXCEPT !.more = FALSE], s)) EXCEPT !.raised = TRUE]

MakeSet(c, s, rows, size) ==
  [c EXCEPT !.sets[s] = Append(@, [left |-> IF size = 0 THEN 0 ELSE rows, isEof |-> size = 0,
                                   isClosed |-> FALSE, fetchSize |-> size]),
            !.more = c.wire # <<>> /\ size = 0,
            !.active = IF size = 0 THEN @ ELSE s]
Pending(c, s) == c.more \/ c.res[s].fetchSize > 0
NoteSet(c, s) ==
  [AddResultSet(c, s, Len(c.sets[s]), Pending(c, s)) EXCEPT !.active = IF Pending(c, s) THEN s ELSE @]
ReadResultSet(c, s, rows) ==
  LET size == c.res[s].fetchSize
      made == MakeSet(c, s, rows, size)
  IN  NoteSet(IF size = 0 THEN made ELSE AddStreamingRow(made, s, Len(c.sets[s]) + 1), s)

ReadPart(c, s, p) ==
  CASE p = OkPart -> ReadOkPacket(c, s)
    [] p = ErrPart -> ReadErrorPacket(c, s)
    [] OTHER -> ReadResultSet(c, s, p)
ReadPacket(c, s) == ReadPart([c EXCEPT !.wire = Tail(@)], s, Head(c.wire))

(* moveToNextResult and getResult.  Both note an error, so it is counted   *)
(* twice; with nothing left to move to, the answer Connector/C still       *)
(* describes is read a second time.                                        *)
MoveToNextResult(c, s) ==
  IF Head(c.wire) = ErrPart THEN [ReadErrorPacket(c, s) EXCEPT !.raised = FALSE] ELSE c

NextResult(c, s) ==
  IF c.wire = <<>> THEN [c EXCEPT !.fault = "noResult"]
  ELSE ReadPacket(MoveToNextResult(c, s), s)

(* skipAllResults.                                                         *)
SkipAllResults(c) ==
  IF c.more THEN RemoveActive([c EXCEPT !.wire = <<>>, !.more = FALSE]) ELSE c

(* loadFully: for another command the rest is kept, otherwise skipped.     *)
LastSet(r) == IF r.exec # <<>> THEN r.exec[Len(r.exec)]
              ELSE IF r.current # 0 THEN r.current ELSE r.released

ReadLastSet(c, s, skip, locked) ==
  LET k == LastSet(c.res[s])
  IN  CASE k = 0 -> c
        [] k # 0 /\ skip -> CloseSet(c, s, k, locked)
        [] OTHER -> ReadRest(c, s, k)
KeepNext(c, s) == IF c.more /\ ~c.raised /\ c.fault = "none" THEN NextResult(c, s) ELSE c
Keeping(c, s) ==
  LET step[n \in 0 .. Len(c.wire)] == IF n = 0 THEN c ELSE KeepNext(step[n - 1], s) IN step
KeepRest(c, s) == Keeping(c, s)[Len(c.wire)]
Kept(c, s) ==
  IF c.raised THEN c ELSE [c EXCEPT !.res[s].caching = FALSE, !.res[s].inWire = FALSE]
LoadRest(c, s, skip) ==
  IF c.fault # "none" \/ ~c.res[s].inWire THEN c
  ELSE IF skip THEN SkipAllResults(c)
  ELSE Kept(KeepRest([c EXCEPT !.res[s].caching = TRUE], s), s)
LoadFully(c, s, skip, locked) == LoadRest(ReadLastSet(c, s, skip, locked), s, skip)

(* Mutant: what the command before left unread is forgotten.               *)
CmdPrologueForgets(c, locked) == [c EXCEPT !.active = Nobody]

WithoutActive(c) == IF c.raised \/ c.fault # "none" THEN c ELSE [c EXCEPT !.active = Nobody]

(* cmdPrologue: the answers of the command before are read first.          *)
CmdPrologue(c, locked) ==
  CASE c.active = Nobody -> c
    [] c.active = Gone -> [c EXCEPT !.fault = "useAfterFree"]
    [] OTHER -> WithoutActive(LoadFully(c, c.active, FALSE, locked))

(* ~Results, when a statement's next command replaces it; the result sets  *)
(* it still owns read their rest as they are destroyed.                    *)
SkipRest(c, s) == IF c.fault # "none" THEN c ELSE LoadFully(c, s, TRUE, TRUE)
ReadOwn(c, s) ==
  LET own == {k \in DOMAIN c.sets[s] : ~c.sets[s][k].isEof}
  IN  IF own = {} THEN c ELSE ReadRest(c, s, CHOOSE k \in own : TRUE)
LetGo(c, s) ==
  IF ~c.res[s].made \/ c.fault # "none" THEN c
  ELSE [ReadOwn(c, s) EXCEPT !.res[s] = NoResults, !.sets[s] = <<>>,
                             !.active = IF @ = s THEN Gone ELSE @]
Destroy(c, s) ==
  LetGo(IF c.res[s].released = 0 THEN c
        ELSE SkipRest(CloseSet(c, s, c.res[s].released, TRUE), s), s)

(* commandEnd: the first result set, if the first answer is one.           *)
CommandEnd(c, s) ==
  LET r == c.res[s]
      first == r.cmd.kind # "none" /\ r.exec # <<>> /\ ~IsCurrentUpdateCount(r.cmd)
  IN  [c EXCEPT !.res[s].released = 0,
                !.res[s].current = IF first THEN Head(r.exec) ELSE 0,
                !.res[s].exec = IF first THEN Tail(@) ELSE @]

-----------------------------------------------------------------------------
Fresh == [wire |-> <<>>, more |-> FALSE, active |-> Nobody,
          res |-> [s \in Stmts |-> NoResults], sets |-> [s \in Stmts |-> <<>>],
          raised |-> FALSE, fault |-> "none", closed |-> {}]

ResultsInit == st = Fresh /\ heard = [s \in Stmts |-> [script |-> <<>>, shown |-> <<>>]]

Going(s) == st.fault = "none" /\ s \notin st.closed

(* What an application does that reads a stream to its end, or closes it,  *)
(* and asks for every answer, before it goes on with the same statement.   *)
OwnStreamIsRead(s) ==
  /\ \A k \in DOMAIN st.sets[s] : st.sets[s][k].isEof
  /\ st.res[s].made => ~(st.res[s].inWire /\ st.wire # <<>>)
AnswersAreAsked == st.wire # <<>> => st.active # Nobody

(* realQuery and getResult: an error as the first answer is thrown as the  *)
(* command is sent, and Results is told nothing of it.                     *)
RealQuery(c, s, script) ==
  IF Head(script) = ErrPart THEN [c EXCEPT !.raised = TRUE]
  ELSE ReadPacket([c EXCEPT !.wire = script], s)

(* executeInternal: the mutex is held, the Results of the command before   *)
(* destroyed, the connection cleared, the command sent, its first answer   *)
(* read.                                                                   *)
Sendable(c) == c.fault = "none" /\ ~c.raised
Begin(c, s, size) ==
  IF c.fault # "none" THEN c ELSE CmdPrologue([c EXCEPT !.res[s] = NewCommand(size)], TRUE)
Ended(c, s) == IF Sendable(c) THEN CommandEnd(c, s) ELSE c
Send(c, s, script) ==
  IF ~Sendable(c) THEN c
  ELSE IF c.wire # <<>> \/ Unread(c) THEN [c EXCEPT !.fault = "outOfSync"]
  ELSE Ended(RealQuery(c, s, script), s)
Execute(s, script, size) ==
  /\ Going(s)
  /\ Careful => OwnStreamIsRead(s) /\ AnswersAreAsked /\ (Len(script) > 1 => size = 0)
  /\ \E begun \in {Begin(Destroy(st, s), s, size)} : \E e \in {Send(begun, s, script)} :
       /\ st' = [e EXCEPT !.raised = FALSE]
       /\ heard' = [heard EXCEPT ![s] =
             IF Sendable(begun)
             THEN [script |-> script, shown |-> <<IF e.raised THEN "raised" ELSE
                                                  IF e.res[s].current # 0 THEN "set" ELSE "count">>]
             ELSE [script |-> <<>>, shown |-> <<>>]]

(* getResultSet: the result set is the application's from here on.         *)
GetResultSet(s) ==
  /\ Going(s) /\ st.res[s].made /\ st.res[s].current # 0
  /\ st' = [st EXCEPT !.res[s].released = st.res[s].current, !.res[s].current = 0]
  /\ UNCHANGED heard

(* next() on a result set at the end of its batch.                         *)
ReadStreamRow(s) ==
  LET k == st.res[s].released
  IN  /\ Going(s) /\ st.res[s].made /\ k # 0
      /\ ~st.sets[s][k].isEof /\ ~st.sets[s][k].isClosed
      /\ st' = AddStreamingRow(st, s, k)
      /\ UNCHANGED heard

(* ResultSet::close.                                                       *)
CloseResultSet(s) ==
  LET k == st.res[s].released
  IN  /\ Going(s) /\ st.res[s].made /\ k # 0
      /\ st' = CloseSet(st, s, k, FALSE)
      /\ UNCHANGED heard

(* getMoreResults: under the mutex the current result set is closed or     *)
(* kept, and the next answer read unless it was read already.              *)
CurrentSet(r) == IF r.current # 0 THEN r.current ELSE r.released
LeaveCurrent(c, s, keep) ==
  LET k == CurrentSet(c.res[s])
  IN  CASE k = 0 -> c
        [] k # 0 /\ keep -> ReadRest(c, s, k)
        [] OTHER -> CloseSet(c, s, k, TRUE)
ReadNext(c, s) == IF c.fault = "none" /\ c.res[s].inWire THEN NextResult(c, s) ELSE c
NextSet(c, s) ==
  [c EXCEPT !.res[s].current = IF c.res[s].exec # <<>> THEN Head(c.res[s].exec) ELSE @,
            !.res[s].exec = IF @ # <<>> THEN Tail(@) ELSE @]
NoSet(c, s) == [c EXCEPT !.res[s].current = 0]
NoMore(c, s) ==
  IF GetUpdateCount(c.res[s].cmd) = -1 /\ c.res[s].inWire
  THEN RemoveActive([c EXCEPT !.res[s].inWire = FALSE]) ELSE c
Step(c, s) == [c EXCEPT !.res[s].cmd = AfterMoreResults(@)]
StepOn(c, s) ==
  IF ~Sendable(c) THEN c
  ELSE IF MoreResults(c.res[s].cmd) THEN NextSet(Step(c, s), s) ELSE NoMore(NoSet(Step(c, s), s), s)
\* what the application sees, of the answer read and of what became of it
Seen(read, now, s) ==
  CASE read.raised -> "raised"
    [] ~read.raised /\ MoreResults(read.res[s].cmd) -> IF now.res[s].current # 0 THEN "set" ELSE "none"
    [] OTHER -> CASE GetUpdateCount(now.res[s].cmd) = -1 -> "none"
                  [] GetUpdateCount(now.res[s].cmd) = EXECUTE_FAILED -> "failed"
                  [] OTHER -> "count"
GetMoreResults(s, keep) ==
  /\ Going(s) /\ st.res[s].made
  /\ Len(heard[s].shown) <= Len(heard[s].script)    \* bound: asked once too often
  /\ Careful => LET r == st.res[s]
                IN  /\ CurrentSet(r) # 0 => st.sets[s][CurrentSet(r)].isEof
                    /\ r.inWire => Len(heard[s].shown) < Len(heard[s].script)
                    /\ r.cmd.kind # "none"
  /\ \E read \in {IF st.res[s].cmd.kind = "none" THEN [st EXCEPT !.fault = "nullDereference"]
                  ELSE ReadNext(LeaveCurrent(st, s, keep), s)} :
     \E now \in {StepOn(read, s)} :
       /\ st' = [now EXCEPT !.raised = FALSE]
       /\ heard' = [heard EXCEPT ![s].shown =
             Append(@, IF read.fault # "none" THEN "fault" ELSE Seen(read, now, s))]

(* skip: the answers of whoever is active are skipped.                     *)
Skip(c, locked) ==
  CASE c.active = Nobody -> c
    [] c.active = Gone -> [c EXCEPT !.fault = "useAfterFree"]
    [] OTHER -> WithoutActive(LoadFully(c, c.active, TRUE, locked))

(* close: a statement with a fetch size skips, then lets its Results go.   *)
CloseReleased(c, s) ==
  IF c.res[s].made /\ c.fault = "none" /\ c.res[s].released # 0
  THEN CloseSet(c, s, c.res[s].released, FALSE) ELSE c
CloseStatement(s) ==
  LET r == st.res[s]
  IN  /\ Going(s)
      /\ Careful => OwnStreamIsRead(s) /\ (r.fetchSize # 0 => st.active \in {Nobody, s})
      /\ st' = [CloseReleased(IF r.made /\ r.fetchSize # 0 THEN Skip(st, FALSE) ELSE st, s)
                  EXCEPT !.res[s].fetchSize = IF r.made THEN 0 ELSE @, !.closed = @ \cup {s}]
      /\ UNCHANGED heard

(* cancel from the thread that uses the statement, between two commands:   *)
(* the mutex is tried, and a stream that is not read is skipped.           *)
Cancel(s) ==
  LET r == st.res[s]
      loaded == r.fetchSize = 0 \/ r.released = 0
                \/ (st.sets[s][r.released].isEof /\ r.exec = <<>> /\ ~st.more)
      skipped == Skip(st, TRUE)
  IN  /\ Going(s) /\ r.made
      /\ Careful => OwnStreamIsRead(s)
      /\ st' = IF loaded THEN st ELSE [skipped EXCEPT !.res[s].fetchSize = 0]
      /\ UNCHANGED heard

ResultsNext == \E s \in Stmts :
  \/ \E script \in Scripts, size \in StreamSizes : Execute(s, script, size)
  \/ GetResultSet(s) \/ ReadStreamRow(s) \/ CloseResultSet(s)
  \/ \E keep \in BOOLEAN : GetMoreResults(s, keep)
  \/ CloseStatement(s) \/ Cancel(s)

ResultsSpec == ResultsInit /\ [][ResultsNext]_resultsVars

-----------------------------------------------------------------------------

(* An application that reads its streams never meets a fault: no command   *)
(* is sent while answers of another are unread, no Results is used after   *)
(* its end, no answer is asked for that does not come, and the mutex is    *)
(* never locked twice (cmdPrologue, loadFully, getMoreResults, realClose). *)
NoFault == Careful => st.fault = "none"

(* The answers of a command reach its statement one by one in the order    *)
(* the server sent them, also when another statement's command made the    *)
(* connection read them early (Results::getMoreResults, loadFully).        *)
Shows(p) == CASE p = OkPart -> {"count"}
              [] p = ErrPart -> {"raised", "failed"}
              [] OTHER -> {"set"}
AnswersInOrder ==
  \A s \in Stmts : \A n \in DOMAIN heard[s].shown :
    LET p == heard[s].script
    IN  heard[s].shown[n] \in IF n <= Len(p) THEN Shows(p[n])
                             ELSE IF p[Len(p)] = ErrPart THEN {"none", "failed"} ELSE {"none"}

(* What is unread on the connection is remembered: activeStreamingResult   *)
(* is the Results it belongs to, which still exists (setActiveStreaming-   *)
(* Result, removeActiveStreamingResult).                                   *)
UnreadIsRemembered ==
  Careful /\ st.fault = "none" /\ Unread(st) =>
    \E s \in Stmts : st.active = s /\ \E k \in DOMAIN st.sets[s] : ~st.sets[s][k].isEof

(* The answers of the statements of one connection are read once, in their *)
(* order and by their owner.                                               *)
AnswersAreKept == NoFault /\ AnswersInOrder /\ UnreadIsRemembered
=============================================================================
