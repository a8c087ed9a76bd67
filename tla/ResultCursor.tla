---------------------------- MODULE ResultCursor ----------------------------
(***************************************************************************)
(* An application that moves through one result set: every positioning     *)
(* method of SelectResultSetCapi and SelectResultSetBin, getters, the      *)
(* other command on the connection that makes the result set read the      *)
(* rest of its stream, and close.                                          *)
(*                                                                         *)
(* pos is the application's reckoning, kept by the meaning of the calls    *)
(* alone (0 before the first row, total + 1 after the last); given and due *)
(* are the last answer and the one the reckoning calls for.  settled says  *)
(* that none of the calls Unsettling names was made: those lose the place, *)
(* and README lists them.                                                  *)
(***************************************************************************)
EXTENDS SelectResultSet

CONSTANTS MaxRows,      \* the largest result
          FetchSizes,   \* fetch sizes of the statement
          Steps         \* arguments of absolute() and relative()

ASSUME CursorAssumption ==
  /\ MaxRows \in Nat
  /\ FetchSizes \subseteq Nat
  /\ Steps \subseteq Int

VARIABLES cur, pos, given, due, settled

cursorVars == <<cur, pos, given, due, settled>>

ForwardStream == cur.streaming /\ ~cur.scroll
After == cur.total + 1
Clip(p) == IF p < 0 THEN 0 ELSE IF p > After THEN After ELSE p

CursorInit ==
  /\ \E binary, scrollable \in BOOLEAN, size \in FetchSizes, rows \in 0 .. MaxRows :
        /\ size > 0 => ~scrollable      \* setFetchSize and setResultSetType see to it
        /\ cur = NewResultSet(binary, scrollable, size, rows)
  /\ pos = 0 /\ given = TRUE /\ due = TRUE /\ settled = TRUE

(* The calls after which the result set may show another row than the one  *)
(* the application stands on:                                              *)
(* - isLast, isAfterLast and setFetchSize(0) read ahead without caching;   *)
(* - a fetch size changed in the middle of a stream;                       *)
(* - last() when a forward stream has dropped its last rows;               *)
(* - the rest of a stream is read before the first next(), or the vector   *)
(*   of rows is reallocated under the current row;                         *)
(* - a stored binary result is copied when Connector/C's cursor is not at  *)
(*   the start.                                                            *)
ReadsAhead == cur.streaming /\ ~cur.isEof
OneByOne == cur.fetchSize = 1 /\ ReadsAhead
Displaces == \/ OneByOne /\ cur.rowPointer < 0
             \/ FetchRemaining(cur).buf = Dangling
Unsettling(op) ==
  CASE op = "isLast" -> ReadsAhead
    [] op = "setFetchSize" -> cur.used
    [] op = "isAfterLast" -> ReadsAhead /\ cur.rowPointer >= cur.dataSize
    [] op \in {"rest", "last", "copy"} ->
         \/ Displaces
         \/ op = "last" /\ cur.used /\ cur.dataSize = 0
         \/ op = "copy" /\ cur.bin /\ cur.rowPointer < 0 /\ cur.seek > 1
    [] OTHER -> FALSE

(* A method that moves the cursor to rowPointer p of result set c.         *)
Move(op, c, p, answer, to, expected) ==
  /\ ~cur.isClosed
  /\ cur' = [c EXCEPT !.rowPointer = p]
  /\ given' = answer
  /\ pos' = to
  /\ due' = expected
  /\ settled' = (settled /\ ~Unsettling(op))

(* A method that only answers.                                             *)
Answer(op, c, answer, expected) == Move(op, c, c.rowPointer, answer, pos, expected)

(***************************************************************************)
(* Positioning.                                                            *)
(***************************************************************************)
NextRow ==
  LET inside == cur.rowPointer < cur.dataSize - 1
      fetch == cur.streaming /\ ~cur.isEof
      s == NextStreamingValue(cur)
      p == IF cur.scroll THEN s.rowPointer + 1 ELSE 0
      to == Clip(pos + 1)
      found == to \in 1 .. cur.total
  IN  \/ inside /\ Move("next", cur, cur.rowPointer + 1, TRUE, to, found)
      \/ ~inside /\ fetch /\ Move("next", s, p, s.dataSize > p, to, found)
      \/ ~inside /\ ~fetch /\ Move("next", cur, cur.dataSize, FALSE, to, found)

Rest == IF cur.isEof THEN cur ELSE FetchRemaining(cur)

BeforeFirst == ~ForwardStream /\ Move("scroll", cur, -1, TRUE, 0, TRUE)

AfterLast == Move("rest", Rest, Rest.dataSize, TRUE, After, TRUE)

First == /\ ~ForwardStream
         /\ Move("scroll", cur, 0, cur.dataSize > 0, IF cur.total > 0 THEN 1 ELSE After,
                 cur.total > 0)

LastRow == Move("last", Rest, Rest.dataSize - 1, Rest.dataSize > 0, cur.total, cur.total > 0)

Absolute(n) ==
  LET known == n >= 0 /\ n <= cur.dataSize
      r == IF known THEN cur ELSE Rest
      hit == IF n >= 0 THEN n <= r.dataSize ELSE r.dataSize + n >= 0
      p == CASE hit /\ n >= 0 -> n - 1
             [] hit /\ n < 0 -> r.dataSize + n
             [] ~hit /\ n >= 0 -> r.dataSize
             [] OTHER -> -1
      to == IF n >= 0 THEN Clip(n) ELSE Clip(cur.total + 1 + n)
  IN  /\ ~ForwardStream
      /\ Move("scroll", r, p, hit, to, n = 0 \/ to \in 1 .. cur.total)

Relative(n) ==
  LET p == cur.rowPointer + n
      to == IF p <= -1 THEN -1 ELSE IF p >= cur.dataSize THEN cur.dataSize ELSE p
  IN  /\ ~ForwardStream
      /\ Move("scroll", cur, to, p > -1 /\ p < cur.dataSize,
              Clip(pos + n), pos + n \in 1 .. cur.total)

Previous ==
  LET p == IF cur.rowPointer > -1 THEN cur.rowPointer - 1 ELSE -1
  IN  /\ ~ForwardStream
      /\ Move("scroll", cur, p, cur.rowPointer > -1 /\ p # -1, Clip(pos - 1),
              pos - 1 \in 1 .. cur.total)

(***************************************************************************)
(* Questions.                                                              *)
(***************************************************************************)
Ahead == IF cur.streaming /\ ~cur.isEof THEN AddStreamingValue(cur, FALSE) ELSE cur

IsBeforeFirst ==
  Answer("ask", cur, cur.rowPointer = -1 /\ (cur.dataFetchTime > 0 => cur.dataSize > 0),
         pos = 0 /\ (cur.used => cur.total > 0))

IsAfterLast ==
  LET within == cur.rowPointer < 0 \/ cur.rowPointer < cur.dataSize
      asks == cur.streaming /\ ~cur.isEof
      given2 == CASE within -> FALSE
                  [] ~within /\ asks -> Ahead.dataSize = cur.rowPointer
                  [] OTHER -> cur.dataSize > 0 \/ cur.dataFetchTime > 1
  IN  Answer("isAfterLast", IF within THEN cur ELSE Ahead, given2, pos = After /\ cur.total > 0)

(* A forward stream starts counting again with every batch of rows.        *)
IsFirst ==
  /\ ~ForwardStream
  /\ Answer("ask", cur, cur.rowPointer = 0 /\ cur.dataSize > 0, pos = 1 /\ cur.total > 0)

IsLast ==
  LET within == cur.rowPointer + 1 < cur.dataSize
      c == IF within \/ cur.isEof THEN cur ELSE Ahead
  IN  Answer("isLast", c,
             ~within /\ c.isEof /\ c.rowPointer = c.dataSize - 1 /\ c.dataSize > 0,
             pos = cur.total /\ cur.total > 0)

SetFetchSize(n) ==
  LET drained == IF cur.streaming /\ n = 0
                 THEN LET d == DrainStream(cur, FALSE)
                      IN  [d EXCEPT !.streaming = d.dataFetchTime = 1]
                 ELSE cur
  IN  Answer(IF n = cur.fetchSize THEN "ask" ELSE "setFetchSize",
             [drained EXCEPT !.fetchSize = n], TRUE, TRUE)

(***************************************************************************)
(* A getter: the row it decodes is given, the one due is the reckoning's.  *)
(***************************************************************************)
Get ==
  LET c == CheckObjectRange(cur)
  IN  /\ ~cur.isClosed
      /\ cur' = c
      /\ given' = IF OnARow(c) THEN CurrentRow(c) ELSE NoRow
      /\ due' = IF pos \in 1 .. cur.total THEN pos ELSE NoRow
      /\ UNCHANGED <<pos, settled>>

(* Another command on the connection: cmdPrologue's loadFully.             *)
OtherCommand ==
  LET c == CacheCompleteLocally(cur)
  IN  /\ ~cur.isClosed
      /\ cur' = c
      /\ settled' = (settled /\ ~Unsettling("copy"))
      /\ given' = TRUE /\ due' = TRUE
      /\ UNCHANGED pos

Close == /\ ~cur.isClosed
         /\ cur' = RealClose(cur)
         /\ given' = TRUE /\ due' = TRUE
         /\ UNCHANGED <<pos, settled>>

CursorNext ==
  \/ NextRow \/ BeforeFirst \/ AfterLast \/ First \/ LastRow \/ Previous
  \/ \E n \in Steps : Absolute(n) \/ Relative(n)
  \/ IsBeforeFirst \/ IsAfterLast \/ IsFirst \/ IsLast
  \/ \E n \in FetchSizes : SetFetchSize(n)
  \/ Get \/ OtherCommand \/ Close

CursorSpec == CursorInit /\ [][CursorNext]_cursorVars

-----------------------------------------------------------------------------

(* A getter decodes the row the application stands on, whatever mixture of *)
(* stored rows, rows read from the stream and rows kept for another        *)
(* command the result set is made of; and next, absolute, relative,        *)
(* previous, first, last and the questions about the position answer by    *)
(* the same reckoning (checkObjectRange, resetRow, next).                  *)
CursorKeepsItsPlace == settled => given = due

(* Once a stream was read to its end for another command, no row is lost:  *)
(* every row from the current one on is held by the result set             *)
(* (fetchRemaining, cacheCompleteLocally).                                 *)
NoRowIsLost ==
  settled /\ cur.isEof /\ ~cur.isClosed /\ pos \in 1 .. cur.total =>
    cur.dataSize - cur.rowPointer = After - pos

(* dataSize never promises a row that neither the cache nor Connector/C    *)
(* holds (readNextValue, growDataArray).                                   *)
RowsAreHeld ==
  settled /\ ~cur.isClosed /\ cur.data # <<>> => cur.dataSize <= Len(cur.data)

(* A result set is its rows in their order, whatever moves, fetch sizes    *)
(* and other commands made of it.                                          *)
RowsInTheirPlace == CursorKeepsItsPlace /\ NoRowIsLost /\ RowsAreHeld
=============================================================================
