-------------------------- MODULE ParameterHolders --------------------------
(***************************************************************************)
(* The classes under parameters/ that BasePrepareStatement's setters make: *)
(* what a value that was set becomes in the text of a query, in a bind of  *)
(* a prepared statement, and in a row of a bulk operation.                 *)
(*                                                                         *)
(*   set       the value the application gave                              *)
(*   column    getColumnType                                               *)
(*   text      the value the server reads from what writeTo wrote          *)
(*   binary    the bits getValuePtr points to                              *)
(*   unsigned  isUnsigned, long isLongData                                 *)
(*   length    getApproximateTextProtocolLength, -1 for unknown            *)
(*                                                                         *)
(* A 64-bit integer has LongBits bits here, so that TLC can count to the   *)
(* end of its range.                                                       *)
(***************************************************************************)
EXTENDS Integers, Sequences

CONSTANT LongBits

ASSUME LongBitsAssumption == LongBits \in 2 .. 30

(* NULL, told from every number that is set.                               *)
Null == -(2 ^ 30)

(* A word of so many bits, read as unsigned and as signed.                 *)
Unsigned(w, bits) == w % (2 ^ bits)
Signed(w, bits) ==
  IF Unsigned(w, bits) >= 2 ^ (bits - 1) THEN Unsigned(w, bits) - 2 ^ bits ELSE Unsigned(w, bits)

Holder(value, column, text, len) ==
  [set |-> value, column |-> column, text |-> text, binary |-> value, bits |-> LongBits,
   unsigned |-> FALSE, long |-> FALSE, length |-> len, limit |-> 0]

NullParameter == Holder(Null, "NULL", Null, 4)
BooleanParameter(b) == Holder(IF b THEN 1 ELSE 0, "TINYINT", IF b THEN 1 ELSE 0, 1)

(* A byte is written as a hexadecimal number, which has no sign.           *)
ByteParameter(v) == [Holder(v, "TINYINT", Unsigned(v, 8), 4) EXCEPT !.bits = 8]
ShortParameter(v) == Holder(v, "SMALLINT", v, 6)
IntParameter(v) == Holder(v, "INTEGER", v, 2)
LongParameter(v) == Holder(v, "BIGINT", v, 2)
ULongParameter(v) == [Holder(v, "BIGINT", v, 2) EXCEPT !.unsigned = TRUE]

(* A fraction in units of 1/10^7: std::to_string has six decimals, the     *)
(* stream of a double thirty.                                              *)
FloatParameter(v) == Holder(v, "FLOAT", (v \div 10) * 10, 8)
DoubleParameter(v) == Holder(v, "DOUBLE", v, 8)

(* Strings and bytes are escaped (QueryLexer) and arrive as they are;      *)
(* setDateTime makes a string of a date.                                   *)
StringParameter(v) == Holder(v, "STRING", v, 3)
ByteArrayParameter(v) == Holder(v, "VARSTRING", v, 2)

(* A stream of value bytes, of which limit are to be sent.                 *)
StreamParameter(value, limit) ==
  [Holder(IF limit < value THEN limit ELSE value, "BLOB", IF limit < value THEN limit ELSE value, -1)
     EXCEPT !.long = TRUE, !.binary = value, !.limit = limit]

IsNullData(h) == h.set = Null

(* BasePrepareStatement's setters.  No stream, no bytes and no date at all *)
(* are a NULL that has a type, and no long data.                           *)
SetNull == NullParameter
SetTypedNull(type) == [NullParameter EXCEPT !.column = type]
SetDateTime(dt) == IF dt = Null THEN SetTypedNull("DATETIME") ELSE StringParameter(dt)
SetBlob(stream, limit) == IF stream = Null THEN SetTypedNull("BLOB") ELSE StreamParameter(stream, limit)
SetNarrow(setter, v) ==
  CASE setter = "setBoolean" -> BooleanParameter(v)
    [] setter = "setByte" -> ByteParameter(v)
    [] setter = "setShort" -> ShortParameter(v)
SetText(setter, v) ==
  CASE setter = "setString" -> StringParameter(v)
    [] setter = "setBytes" -> IF v = Null THEN SetTypedNull("BLOB") ELSE ByteArrayParameter(v)
SetWide(setter, v) ==
  CASE setter = "setInt" -> IntParameter(v)
    [] setter = "setLong" -> LongParameter(v)
    [] setter \in {"setUInt", "setUInt64"} -> ULongParameter(v)
    [] setter = "setBigInt" -> StringParameter(v)
    [] setter = "setFloat" -> FloatParameter(v)
    [] setter = "setDouble" -> DoubleParameter(v)

-----------------------------------------------------------------------------
(* Mutant: the flag of the value is not put into the bind.                 *)
BoundValueSigned(h, isUnsigned) ==
  CASE IsNullData(h) -> Null
    [] ~IsNullData(h) /\ h.long -> h.binary
    [] ~IsNullData(h) /\ ~h.long /\ h.column \in {"TINYINT", "SMALLINT", "INTEGER", "BIGINT"} ->
         Signed(h.binary, h.bits)
    [] OTHER -> h.binary

(* initBindStruct, bindParamValue: the server reads the bits as the bind   *)
(* says.  Long data are sent to the end of the stream, whatever its length *)
(* was set to (executePreparedQuery, writeBinary).                         *)
BoundValue(h, isUnsigned) ==
  CASE IsNullData(h) -> Null
    [] ~IsNullData(h) /\ h.long -> h.binary
    [] ~IsNullData(h) /\ ~h.long /\ h.column \in {"TINYINT", "SMALLINT", "INTEGER", "BIGINT"} ->
         IF isUnsigned THEN Unsigned(h.binary, h.bits) ELSE Signed(h.binary, h.bits)
    [] OTHER -> h.binary

(* bindParameters of one row, and paramRowUpdate for a row of a bulk: the  *)
(* types and flags of a bulk were sent with its first row.                 *)
SentBinary(h) == BoundValue(h, h.unsigned)
SentBulk(h, first) == BoundValue(h, first.unsigned)

(* What writeTo put into the query.                                        *)
SentText(h) == h.text

(* The types of a bulk: of the first row that is not NULL, and every other *)
(* row has the same (executeBulkBatch).                                    *)
BulkTypesAgree(hs) ==
  \A i, j \in DOMAIN hs :
    hs[i].column # "NULL" /\ hs[j].column # "NULL" => hs[i].column = hs[j].column

-----------------------------------------------------------------------------
(* The values for which the text and the bind are known to differ: bytes   *)
(* below 0, fractions beyond the sixth decimal, streams longer than their  *)
(* limit; and for a bulk, one column with values of both kinds of sign.    *)
ExactAsText(h) == (h.column = "TINYINT" => h.set >= 0) /\ (h.column = "FLOAT" => h.set % 10 = 0)
ExactAsBinary(h) == h.long => h.binary <= h.limit
ExactInBulk(h, first) == h.unsigned = first.unsigned \/ IsNullData(h)
=============================================================================
