------------------------------ MODULE RowReader ------------------------------
(* A reader asks for a column of a row, again and again, with any getter. The    *)
(* same row is read in the binary and in the text protocol: a program must not   *)
(* see whether its statement was prepared.                                       *)
EXTENDS TemporalDecoding, ColumnMetadata

CONSTANTS Columns,       \* the columns of the row
          Options        \* settings of [tinyInt1isBit, yearIsDateType, useOldAlias, forceAlias, blankTable]

VARIABLES column, getter, bin, text
rowVars == <<column, getter, bin, text>>

IntegerGetters == {"Byte", "Short", "Int", "UInt", "Long", "ULong"}
NumberGetters == IntegerGetters \cup {"Float", "Double", "Boolean"}
TextGetters == {"String", "Date", "Time", "Timestamp"}
Getters == NumberGetters \cup TextGetters

-----------------------------------------------------------------------------
\* SelectResultSet::getUInt: the long, with its limits checked once more
GetUInt(c, o) ==
  IF o.k # "val" THEN o
  ELSE IF o.half < 0 \/ o.half > 2 * UIntMax(4) THEN RangeError ELSE o

\* setPosition decides whether the field is null; the number getters leave the bits alone
SetPosition(c, o) == Got(o, IF IsNull(c) THEN FieldNull ELSE {})

Bin(c, g) ==
  CASE g = "Byte" -> SetPosition(c, BinGetInternalByte(c))
    [] g = "Short" -> SetPosition(c, BinGetInternalShort(c))
    [] g = "Int" -> SetPosition(c, BinGetInternalInt(c))
    [] g = "UInt" -> SetPosition(c, GetUInt(c, BinGetInternalLong(c)))
    [] g = "Long" -> SetPosition(c, BinGetInternalLong(c))
    [] g = "ULong" -> SetPosition(c, BinGetInternalULong(c))
    [] g = "Float" -> SetPosition(c, BinGetInternalFloat(c))
    [] g = "Double" -> SetPosition(c, BinGetInternalDouble(c))
    [] g = "Boolean" -> SetPosition(c, BinGetInternalBoolean(c))
    [] g = "String" -> BinConvertToString(c)
    [] g = "Date" -> BinGetInternalDate(c)
    [] g = "Time" -> BinGetInternalTime(c)
    [] g = "Timestamp" -> BinGetInternalTimestamp(c)

TextOf(c, g) ==
  CASE g = "Byte" -> SetPosition(c, TextGetInternalByte(c))
    [] g = "Short" -> SetPosition(c, TextGetInternalShort(c))
    [] g = "Int" -> SetPosition(c, TextGetInternalInt(c))
    [] g = "UInt" -> SetPosition(c, GetUInt(c, TextGetInternalLong(c)))
    [] g = "Long" -> SetPosition(c, TextGetInternalLong(c))
    [] g = "ULong" -> SetPosition(c, TextGetInternalULong(c))
    [] g = "Float" -> SetPosition(c, TextGetInternalFloat(c))
    [] g = "Double" -> SetPosition(c, TextGetInternalDouble(c))
    [] g = "Boolean" -> SetPosition(c, TextGetInternalBoolean(c))
    [] g = "String" -> TextGetInternalString(c)
    [] g = "Date" -> TextGetInternalDate(c)
    [] g = "Time" -> TextGetInternalTime(c)
    [] g = "Timestamp" -> TextGetInternalTimestamp(c)

Read(g) == getter' = g /\ bin' = Bin(column, g) /\ text' = TextOf(column, g) /\ UNCHANGED column

RowInit == \E c \in Columns :
          column = c /\ getter = "String" /\ bin = BinConvertToString(c) /\ text = TextGetInternalString(c)
RowNext == \E g \in Getters : Read(g)
RowSpec == RowInit /\ [][RowNext]_rowVars

-----------------------------------------------------------------------------
\* columns whose value is a number, with the number that counts
NumberTypes == IntTypes \cup {"FLOAT", "DOUBLE", "DECIMAL"}
IsNumberColumn == column.type \in NumberTypes /\ IsNumber(column)
Value == Trunc(column.cell.half)
IntegerRange(g) ==
  CASE g = "Byte" -> IntMin(1)..IntMax(1)
    [] g = "Short" -> IntMin(2)..IntMax(2)
    [] g = "Int" -> IntMin(4)..IntMax(4)
    [] g = "UInt" -> 0..UIntMax(4)
    [] g = "Long" -> IntMin(8)..IntMax(8)
    [] g = "ULong" -> 0..UIntMax(8)
Exact(o) == o = (IF Value \in IntegerRange(getter) THEN Whole(Value) ELSE RangeError)

\* Where the conversion is known to be wrong: an unsigned column of the getter's own width, a
\* floating point number beyond 8 bytes or above half of the unsigned range, a decimal beyond the
\* unsigned range or below 0, whose exception nobody catches, and -1 < x < 0 as an unsigned number.
TooNarrow ==
  ~column.signed /\ <<column.type, getter>> \in {<<"TINY", "Byte">>, <<"SHORT", "Short">>, <<"YEAR", "Short">>}
TooLarge ==
  /\ getter \in IntegerGetters /\ column.type \in {"FLOAT", "DOUBLE"}
  /\ Value \notin (IntMin(8) + 1)..(IntMax(8) - 1)
ViaFloat == column.type = "DOUBLE" /\ getter = "Byte"
NegativeFraction == getter \in {"ULong", "UInt"} /\ column.cell.half = -1
UncaughtDecimal == column.type = "DECIMAL" /\ getter = "ULong"

(* An integer getter returns the number that is in the column, without its       *)
(* fraction, if its type can hold it, and throws a range error (22003) if not:   *)
(* it never returns another number. In both protocols, but for the places named  *)
(* above (getInternalByte, ..., getInternalULong with rangeCheck).               *)
NumbersAreExact ==
  IsNumberColumn /\ getter \in IntegerGetters /\ ~TooLarge /\ ~NegativeFraction =>
    /\ TooNarrow \/ ViaFloat \/ UncaughtDecimal \/ Exact(bin.out)
    /\ Exact(text.out)

\* Where the two protocols are known to differ: the places above; a boolean of a decimal or of a
\* zero that is not written "0"; words, which one of them takes for 0 and the other refuses; the
\* bytes of a BLOB as a number; TIME columns and times in strings; the date in a string; and
\* timestamps with a year of less than four digits, which the text protocol cuts.
BooleanDiffers ==
  getter = "Boolean" /\ (column.type = "DECIMAL" \/ (IsNumber(column) /\ column.padded))
WordDiffers == getter \in {"Float", "Double"} /\ column.type \in StringTypes /\ ~IsNumber(column)
BlobDiffers == column.type = "BLOB" /\ getter \in NumberGetters
TemporalDiffers ==
  \/ getter \in {"Time", "Timestamp"} /\ column.type \in {"TIME"} \cup StringTypes
  \/ getter = "Date" /\ column.type \in StringTypes
  \/ getter \in {"Date", "Time"} /\ column.type \in {"DATETIME", "TIMESTAMP"} /\ column.cell.date \in {"short", "zero"}
  \/ getter = "String" /\ column.type = "DATE" /\ IsZero(column)

(* A program reads the same values, errors and nulls whether its statement is    *)
(* prepared (BinRowProtocolCapi) or not (TextRowProtocolCapi), for every type    *)
(* and every getter, but for the differences named above.                        *)
ProtocolsAgree ==
  \/ IsNumberColumn /\ (TooNarrow \/ TooLarge \/ ViaFloat \/ NegativeFraction \/ UncaughtDecimal)
  \/ ~IsNull(column) /\ (BooleanDiffers \/ WordDiffers \/ BlobDiffers \/ TemporalDiffers)
  \/ bin = text

(* wasNull() after a getter is true for every NULL, true for a zero date read as *)
(* a date or a timestamp, and for nothing else but a zero date or time: the bits *)
(* that another getter left (setPosition, BIT_LAST_ZERO_DATE) never show.         *)
WasNullIsOfThisField ==
  \A r \in {bin, text} :
    /\ IsNull(column) => WasNull(r.bits)
    /\ WasNull(r.bits) => IsNull(column) \/ IsZero(column) \/ (IsNumber(column) /\ column.cell.half = 0)
                          \/ (column.type \in {"DATETIME", "TIMESTAMP"} /\ column.cell.date = "zero")
    /\ column.type \in {"DATE", "DATETIME", "TIMESTAMP"} /\ IsZero(column) /\ getter \in {"Date", "Timestamp"} =>
         WasNull(r.bits)

(* The fraction of a second that makeStringFromTimeStruct prints is the one the  *)
(* server sent, for every number of decimals a column can have.                  *)
FractionIsExact ==
  column.type = "TIME" =>
    \A decimals \in 1..Digits : \A n \in 1..(10 ^ decimals - 1) :
      LET part == n * 10 ^ (Digits - decimals)
      IN  FractionLength(part, decimals) = Digits

-----------------------------------------------------------------------------
\* the column as MYSQL_FIELD describes it
FieldName == [TINY |-> "TINYINT", SHORT |-> "SMALLINT", YEAR |-> "YEAR", LONG |-> "INTEGER",
              INT24 |-> "MEDIUMINT", LONGLONG |-> "BIGINT", FLOAT |-> "FLOAT", DOUBLE |-> "DOUBLE"]
FieldOf(c, width) ==
  [number |-> TypeMap[FieldName[c.type]].type, charset |-> BinaryCharset, length |-> width, decimals |-> 0,
   flags |-> IF c.signed THEN {} ELSE {"UNSIGNED"}, named |-> TRUE]
GetterOfClass == [int8_t |-> "Byte", int16_t |-> "Short", int32_t |-> "Int", int64_t |-> "Long",
                  uint64_t |-> "ULong", float |-> "Float"]

\* the class a column has, and the one its SQL type has
ClassesOf(c, opt) ==
  {GetClassName(FieldOf(c, 4), opt)}
    \cup (IF c.signed THEN {ClassFromJavaType(GetColumnType(FieldOf(c, 4), opt))} ELSE {})

(* The class that ResultSetMetaData::getColumnClassName names for a column of    *)
(* integers is one whose getter returns every value the column can have; so is   *)
(* the class of its SQL type, for signed columns.                                *)
ClassHoldsEveryValue ==
  \A opt \in Options :
    column.type \in IntTypes /\ IsNumber(column) =>
      \A class \in ClassesOf(column, opt) :
        class \in DOMAIN GetterOfClass /\ GetterOfClass[class] = getter =>
          bin.out = Whole(Value) /\ text.out = Whole(Value)

\* the declared types of the integer columns
Declared == [TINY |-> "tinyint", SHORT |-> "smallint", YEAR |-> "year", LONG |-> "int",
             INT24 |-> "mediumint", LONGLONG |-> "bigint", FLOAT |-> "float", DOUBLE |-> "double"]

(* DatabaseMetaData::getColumns and ResultSetMetaData::getColumnType report the  *)
(* same SQL type for a column, under every setting of the options.               *)
MetadataAgree ==
  column.type \in DOMAIN FieldName =>
    \A opt \in Options, width \in {1, 4} :
      DataTypeClause(Declared[column.type], width, opt) = GetColumnType(FieldOf(column, width), opt)

\* MYSQL_FIELD of strings and blobs, at the limits of the lengths
StringFields ==
  [number : {15} \cup (249..254), charset : Charsets, decimals : {0}, flags : {{}}, named : {TRUE},
   length : {1, TinyLength, TinyLength + 1, 4 * VarcharLength, 4 * VarcharLength + 4, BlobLength, BlobLength + 1,
             MediumLength, MediumLength + 1, LongLength, LongLength + 1}]

(* A column of strings or blobs is described as bytes by its class, its type and *)
(* its type name, or as characters by all three: fromServer turns a blob with a  *)
(* character set into a text before any of them is asked. The names of a column  *)
(* and of its table are both aliases or both original.                           *)
DescriptionsAgree ==
  column.type = "BLOB" /\ IsNull(column) =>
    \A f \in StringFields, opt \in Options :
      LET bytes == IsBinary(f)
      IN  /\ (GetClassName(f, opt) = "[B") = bytes
          /\ (GetColumnType(f, opt) \in {"VARBINARY", "LONGVARBINARY", "BINARY"}) = bytes
          /\ (GetColumnTypeName(f)[1] \in {"TINYBLOB", "BLOB", "MEDIUMBLOB", "LONGBLOB",
                                           "VARBINARY", "LONGVARBINARY", "BINARY"}) = bytes
          /\ GetTableName(f, opt) \in {"blank", IF GetColumnName(f, opt) = "label" THEN "alias" ELSE "original"}

(* getPrecision of a DECIMAL(p, s), whose length counts a sign and a point, is p. *)
PrecisionIsDeclared ==
  column.type = "DECIMAL" /\ IsNull(column) =>
    \A p \in 1..4, scale \in 0..2, signed \in BOOLEAN :
      scale <= p =>
        GetPrecision([number |-> TypeMap.DECIMAL.type, charset |-> BinaryCharset, decimals |-> scale, named |-> TRUE,
                      length |-> p + (IF scale > 0 THEN 1 ELSE 0) + (IF signed THEN 1 ELSE 0),
                      flags |-> IF signed THEN {} ELSE {"UNSIGNED"}]) = p

(* A getter reads the value that is in the column or says that it cannot, in both *)
(* protocols alike, and wasNull speaks of this value.                             *)
ValuesAreRead == NumbersAreExact /\ ProtocolsAgree /\ WasNullIsOfThisField /\ FractionIsExact

(* The descriptions of a column by its class, type, name and precision agree with *)
(* each other, with DatabaseMetaData and with the values it gives.                *)
ColumnsAreDescribed ==
  /\ ClassHoldsEveryValue
  /\ MetadataAgree
  /\ DescriptionsAgree
  /\ PrecisionIsDeclared
=============================================================================
