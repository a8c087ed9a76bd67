--------------------------- MODULE SelectResultSet ---------------------------
(***************************************************************************)
(* The result set of a query, SelectResultSetCapi.cpp (text protocol) and  *)
(* SelectResultSetBin.cpp (prepared statements), as a record and the       *)
(* operators its methods are.  The rows of the result are the numbers      *)
(* 1 .. total in the order the server sends them; a row's fields are       *)
(* decoded by RowDecoding, here a row is only told from another.           *)
(*                                                                         *)
(*   bin        SelectResultSetBin, not SelectResultSetCapi                *)
(*   scroll     resultSetScrollType is not TYPE_FORWARD_ONLY               *)
(*   fetchSize, streaming, isEof, isClosed, dataFetchTime    as the code's *)
(*   rowPointer, lastRowPointer    counted from 0, -1 before the first     *)
(*   dataSize   rows the result set believes it holds                      *)
(*   data       the rows cached in it (the vector data)                    *)
(*   capacity   the capacity of that vector                                *)
(*   buf        what RowProtocol::buf points at: an index of data, NoBuf   *)
(*              for null, Dangling once the vector was reallocated         *)
(*   used       the native result is mysql_use_result's, read row by row   *)
(*   read       rows fetched from a used native result so far              *)
(*   seek       the next row of a stored native result                     *)
(*   native     the row in Connector/C's buffers, NoRow for none           *)
(*   total      the number of rows of the result                           *)
(***************************************************************************)
EXTENDS Integers, Sequences, FiniteSets

CONSTANT Reserve      \* data.reserve(10), scaled down

ASSUME ReserveAssumption == Reserve \in Nat \ {0}

NoBuf == -1
Dangling == -2

NoRow == 0
(* What a read of memory that holds no row gives: no promise at all.       *)
Garbage == -1

MaxOf(a, b) == IF a > b THEN a ELSE b

(***************************************************************************)
(* Connector/C, as the code uses it: mysql_fetch_row, mysql_data_seek.     *)
(***************************************************************************)
NativeFetch(c) ==
  IF c.used
  THEN IF c.read < c.total THEN [c EXCEPT !.read = @ + 1, !.native = c.read + 1]
                           ELSE [c EXCEPT !.native = NoRow]
  ELSE IF c.seek <= c.total THEN [c EXCEPT !.seek = @ + 1, !.native = c.seek]
                            ELSE [c EXCEPT !.native = NoRow]

NativeSeek(c, rowPtr) == IF c.used THEN c ELSE [c EXCEPT !.seek = rowPtr + 1]

(***************************************************************************)
(* The cache of rows.                                                      *)
(***************************************************************************)

(* growDataArray: one element more, or up to dataSize.                     *)
GrowDataArray(c, complete) ==
  LET newSize == IF complete THEN MaxOf(c.dataSize, Len(c.data)) ELSE Len(c.data) + 1
      grows == c.capacity < newSize
  IN  [c EXCEPT !.data = [i \in 1 .. newSize |->
                            IF i <= Len(c.data) THEN c.data[i] ELSE NoRow],
                !.capacity = IF grows THEN MaxOf(newSize, Len(c.data) + Len(c.data) \div 2) ELSE @,
                !.buf = IF grows /\ @ # NoBuf THEN Dangling ELSE @]

(* cacheCurrentRow(data[i]); beyond the vector it is a stray write.        *)
CacheCurrentRow(c, i) ==
  IF i + 1 \in DOMAIN c.data THEN [c EXCEPT !.data[i + 1] = c.native] ELSE c

(* resetVariables.                                                         *)
ResetVariables(c) == [c EXCEPT !.isEof = TRUE]

(* readNextValue: fetch a row, at the end reset; what it tells the         *)
(* protocol at the end of the rows is StatementResults' part.              *)
ReadNextValue(c, cacheLocally) ==
  LET f == NativeFetch(c)
      g == IF f.dataSize + 1 >= Len(f.data) THEN GrowDataArray(f, FALSE) ELSE f
      k == IF cacheLocally THEN CacheCurrentRow(g, f.dataSize) ELSE f
  IN  IF f.native = NoRow THEN ResetVariables(f) ELSE [k EXCEPT !.dataSize = @ + 1]

(* addStreamingValue: up to fetchSize rows, stopping at the end.           *)
AddStreamingValue(c, cacheLocally) ==
  LET step[n \in 0 .. c.fetchSize] ==
        IF n = 0 THEN c
        ELSE IF step[n - 1].isEof THEN step[n - 1]
        ELSE ReadNextValue(step[n - 1], cacheLocally)
  IN  [step[c.fetchSize] EXCEPT !.dataFetchTime = @ + 1]

(* nextStreamingValue.                                                     *)
NextStreamingValue(c) ==
  LET w == [c EXCEPT !.lastRowPointer = -1,
                     !.dataSize = IF c.scroll THEN @ ELSE 0]
  IN  AddStreamingValue(w, c.fetchSize > 1)

(* while (!isEof) addStreamingValue(cacheLocally)                          *)
DrainStream(c, cacheLocally) ==
  LET step[n \in 0 .. c.total + 1] ==
        IF n = 0 THEN c
        ELSE IF step[n - 1].isEof \/ step[n - 1].fetchSize = 0 THEN step[n - 1]
        ELSE AddStreamingValue(step[n - 1], cacheLocally)
  IN  step[c.total + 1]

(***************************************************************************)
(* The constructor: a stored result, or a stream with its first rows.      *)
(***************************************************************************)
NewResultSet(binary, scrollable, size, rows) ==
  LET c == [bin |-> binary, scroll |-> scrollable, fetchSize |-> size,
            streaming |-> size > 0, isEof |-> size = 0, isClosed |-> FALSE,
            dataFetchTime |-> 0, rowPointer |-> -1, lastRowPointer |-> -1,
            dataSize |-> IF size = 0 THEN rows ELSE 0,
            data |-> <<>>, capacity |-> MaxOf(Reserve, size), buf |-> NoBuf,
            used |-> size > 0, read |-> 0, seek |-> 1, native |-> NoRow,
            total |-> rows]
  IN  IF size = 0 THEN c ELSE NextStreamingValue(c)

(***************************************************************************)
(* The current row.                                                        *)
(***************************************************************************)

(* resetRow: the cached row, or Connector/C's after a seek where the rows  *)
(* are not read one after the other.                                       *)
ResetRow(c) ==
  LET cached == IF c.bin THEN Len(c.data) > c.rowPointer ELSE Len(c.data) > 0
      s == IF c.rowPointer # c.lastRowPointer + 1 THEN NativeSeek(c, c.rowPointer) ELSE c
      r == IF cached THEN [c EXCEPT !.buf = c.rowPointer]
           ELSE IF c.streaming THEN s ELSE NativeFetch(s)
  IN  [r EXCEPT !.lastRowPointer = c.rowPointer]

(* checkObjectRange: the refusals, then the row is made current.           *)
OnARow(c) == c.rowPointer >= 0 /\ c.rowPointer < c.dataSize
CheckObjectRange(c) ==
  IF OnARow(c) /\ c.lastRowPointer # c.rowPointer THEN ResetRow(c) ELSE c

(* What a getter decodes after checkObjectRange (setPosition): the cached  *)
(* row buf points at, or the one in Connector/C's buffers.                 *)
CurrentRow(c) ==
  CASE c.buf = NoBuf -> c.native
    [] c.buf = Dangling -> Garbage
    [] OTHER -> IF c.buf + 1 \in DOMAIN c.data THEN c.data[c.buf + 1] ELSE Garbage

(***************************************************************************)
(* Reading the rest of a stream for another command, or closing.           *)
(***************************************************************************)

(* Mutant: the row in Connector/C's buffers is not counted again.          *)
FetchRemainingShort(c) ==
  LET one == c.dataSize > 0 /\ c.fetchSize = 1
      shrunk == GrowDataArray([c EXCEPT !.lastRowPointer = -1, !.dataSize = @ - 1], FALSE)
      placed == ResetRow([CacheCurrentRow(shrunk, shrunk.dataSize) EXCEPT !.rowPointer = 0])
      start == IF one THEN placed ELSE [c EXCEPT !.lastRowPointer = -1]
  IN  IF c.isEof THEN c
      ELSE [DrainStream(start, TRUE) EXCEPT !.dataFetchTime = @ + 1]

(* fetchRemaining: the row in Connector/C's buffers becomes data[0] when   *)
(* rows come one by one, the others are cached behind it.                  *)
FetchRemaining(c) ==
  LET one == c.dataSize > 0 /\ c.fetchSize = 1
      shrunk == GrowDataArray([c EXCEPT !.lastRowPointer = -1, !.dataSize = @ - 1], FALSE)
      kept == CacheCurrentRow(shrunk, shrunk.dataSize)
      placed == ResetRow([kept EXCEPT !.rowPointer = 0])
      start == IF one THEN [placed EXCEPT !.dataSize = @ + 1]
                      ELSE [c EXCEPT !.lastRowPointer = -1]
  IN  IF c.isEof THEN c
      ELSE [DrainStream(start, TRUE) EXCEPT !.dataFetchTime = @ + 1]

(* cacheCompleteLocally: the text result set reads a stream to its end; a  *)
(* prepared statement's also copies a stored result, since Connector/C     *)
(* drops it, and takes any cached row for all of them.                     *)
CacheCompleteLocally(c) ==
  LET rewound == IF c.rowPointer > -1 THEN [c EXCEPT !.seek = 1, !.lastRowPointer = -1] ELSE c
      grown == GrowDataArray(rewound, TRUE)
      copied == [grown EXCEPT !.data = [i \in 1 .. c.dataSize |->
                                          IF grown.seek + i - 1 <= c.total
                                          THEN grown.seek + i - 1 ELSE grown.native],
                              !.native = IF c.dataSize > 0 THEN c.total ELSE @,
                              !.seek = c.total + 1]
  IN  CASE ~c.bin -> IF c.fetchSize > 0 THEN FetchRemaining(c) ELSE c
        [] c.bin /\ c.data # <<>> -> c
        [] c.bin /\ c.data = <<>> /\ c.streaming -> FetchRemaining(c)
        [] OTHER -> [copied EXCEPT !.rowPointer = c.rowPointer]

(* realClose, and the destructor: the stream is read to its end, the       *)
(* cache dropped.                                                          *)
RealClose(c) ==
  [c EXCEPT !.isClosed = TRUE, !.isEof = TRUE, !.data = <<>>,
            !.read = IF c.isEof THEN @ ELSE c.total,
            !.dataSize = IF c.isEof THEN @ ELSE 0]
==============================================================================
