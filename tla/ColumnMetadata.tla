--------------------------- MODULE ColumnMetadata ---------------------------
(* What the driver says of a column: ColumnType.cpp (the table of types and     *)
(* what is derived from it), com/capi/ColumnDefinitionCapi.cpp and              *)
(* MariaDbResultSetMetaData.cpp. A column is what MYSQL_FIELD tells of it:       *)
(* [type, charset, length, decimals, flags, named], lengths in classes of       *)
(* their own order; named says whether the column has an original name.         *)
EXTENDS Integers, Sequences, FiniteSets

\* the limits of the lengths that the names of types depend on, in their order
CONSTANTS TinyLength, VarcharLength, BlobLength, MediumLength, LongLength
ASSUME LengthsAssumption ==
  /\ TinyLength \in Nat \ {0} /\ VarcharLength \in Nat /\ BlobLength \in Nat
  /\ MediumLength \in Nat /\ LongLength \in Nat
  /\ TinyLength < VarcharLength /\ VarcharLength < BlobLength
  /\ BlobLength < MediumLength /\ MediumLength < LongLength

BinaryCharset == "binary"       \* number 63
OneByte == "latin1"
FourBytes == "utf8mb4"
Charsets == {BinaryCharset, OneByte, FourBytes}

\* [server's number, SQL type, class, bytes it takes in the binary protocol]
T(n, sql, class, size) == [type |-> n, sql |-> sql, class |-> class, size |-> size]
TimeStruct == 40
TypeMap ==
  [ OLDDECIMAL |-> T(0, "DECIMAL", "BigDecimal", 0),   TINYINT    |-> T(1, "SMALLINT", "int32_t", 1),
    SMALLINT   |-> T(2, "SMALLINT", "int32_t", 2),     INTEGER    |-> T(3, "INTEGER", "int32_t", 4),
    FLOAT      |-> T(4, "REAL", "float", 4),           DOUBLE     |-> T(5, "DOUBLE", "long double", 8),
    _NULL      |-> T(6, "NULL", "SQLString", 0),       TIMESTAMP  |-> T(7, "TIMESTAMP", "Timestamp", TimeStruct),
    BIGINT     |-> T(8, "BIGINT", "int64_t", 8),       MEDIUMINT  |-> T(9, "INTEGER", "int32_t", 4),
    DATE       |-> T(10, "DATE", "Date", TimeStruct),  TIME       |-> T(11, "TIME", "Time", TimeStruct),
    DATETIME   |-> T(12, "TIMESTAMP", "Timestamp", TimeStruct),
    YEAR       |-> T(13, "SMALLINT", "int16_t", 2),    NEWDATE    |-> T(14, "DATE", "Date", TimeStruct),
    VARCHAR    |-> T(15, "VARCHAR", "SQLString", 0),   BIT        |-> T(16, "BIT", "[B", 0),
    JSON       |-> T(245, "VARCHAR", "SQLString", 0),  DECIMAL    |-> T(246, "DECIMAL", "BigDecimal", 0),
    ENUM       |-> T(247, "VARCHAR", "SQLString", 0),  SET        |-> T(248, "VARCHAR", "SQLString", 0),
    TINYBLOB   |-> T(249, "VARBINARY", "[B", 0),       MEDIUMBLOB |-> T(250, "VARBINARY", "[B", 0),
    LONGBLOB   |-> T(251, "LONGVARBINARY", "[B", 0),   BLOB       |-> T(252, "LONGVARBINARY", "[B", 0),
    VARSTRING  |-> T(253, "VARCHAR", "SQLString", 0),  STRING     |-> T(254, "VARCHAR", "SQLString", 0),
    GEOMETRY   |-> T(255, "VARBINARY", "[B", 0) ]
TypeNames == DOMAIN TypeMap
ServerNumbers == {TypeMap[n].type : n \in TypeNames}

\* plausible slips
FromServerAnyCharset(number, charset) ==
  IF number \in ServerNumbers THEN CHOOSE n \in TypeNames : TypeMap[n].type = number ELSE "BLOB"
GetClassNameSigned(f, opt) ==
  LET n == FromServerAnyCharset(f.number, f.charset)
  IN  IF n = "YEAR" /\ opt.yearIsDateType THEN "Date" ELSE TypeMap[n].class

(* A blob with a character set is a text.                                       *)
FromServer(number, charset) ==
  IF charset # BinaryCharset /\ number \in 249..252 THEN "VARCHAR"
  ELSE IF number \in ServerNumbers THEN CHOOSE n \in TypeNames : TypeMap[n].type = number
  ELSE "BLOB"

ClassFromJavaType(sql) ==
  CASE sql \in {"BOOLEAN", "BIT", "NULL"} -> "bool"
    [] sql = "TINYINT" -> "int8_t"
    [] sql = "SMALLINT" -> "int16_t"
    [] sql = "INTEGER" -> "int32_t"
    [] sql = "BIGINT" -> "int64_t"
    [] sql \in {"DOUBLE", "FLOAT"} -> "long double"
    [] sql = "REAL" -> "float"
    [] sql = "TIMESTAMP" -> "Timestamp"
    [] sql = "DATE" -> "Date"
    [] sql = "TIME" -> "Time"
    [] sql \in {"DECIMAL", "NUMERIC"} -> "BigDecimal"
    [] OTHER -> "SQLString"

-----------------------------------------------------------------------------
(* ColumnDefinitionCapi                                                          *)

ColumnType(f) == FromServer(f.number, f.charset)
IsSigned(f) == "UNSIGNED" \notin f.flags
IsBinary(f) == f.charset = BinaryCharset

\* maxCharlen of the charset; 0, what the table has for some, counts as 1
MaxCharlen(charset) == CASE charset = BinaryCharset -> 1 [] charset = OneByte -> 1 [] OTHER -> 4

(* The sign and the point are a part of the length of a decimal.                *)
GetPrecision(f) ==
  IF ColumnType(f) \in {"OLDDECIMAL", "DECIMAL"}
  THEN f.length - (IF IsSigned(f) THEN 1 ELSE 0) - (IF f.decimals > 0 THEN 1 ELSE 0)
  ELSE f.length

GetDisplaySize(f) ==
  IF TypeMap[ColumnType(f)].sql \in {"VARCHAR", "CHAR"} THEN f.length \div MaxCharlen(f.charset)
  ELSE f.length

-----------------------------------------------------------------------------
(* Names, classes and SQL types, and the options they depend on                  *)

\* the blob a length belongs to, and the text
BlobName(len) ==
  CASE len <= TinyLength -> "TINYBLOB"
    [] len > TinyLength /\ len <= BlobLength -> "BLOB"
    [] len > BlobLength /\ len <= MediumLength -> "MEDIUMBLOB"
    [] OTHER -> "LONGBLOB"
TextName(len, charLen) ==
  CASE len > LongLength -> "LONGTEXT"
    [] len <= LongLength /\ charLen <= VarcharLength -> "VARCHAR"
    [] len <= LongLength /\ charLen > VarcharLength /\ charLen <= BlobLength -> "TEXT"
    [] len <= LongLength /\ charLen > BlobLength /\ charLen <= MediumLength -> "MEDIUMTEXT"
    [] OTHER -> "LONGTEXT"

\* each answers for the type n that the server's number stands for
ColumnTypeNameOf(n, f) ==
  CASE n \in {"SMALLINT", "MEDIUMINT", "INTEGER", "BIGINT"} -> <<TypeMap[n].sql, IsSigned(f)>>
    [] n = "BLOB" -> <<BlobName(f.length), TRUE>>
    [] n \in {"VARSTRING", "VARCHAR"} ->
         <<IF IsBinary(f) THEN "VARBINARY" ELSE TextName(f.length, GetDisplaySize(f)), TRUE>>
    [] n = "STRING" -> <<IF IsBinary(f) THEN "BINARY" ELSE "CHAR", TRUE>>
    [] OTHER -> <<TypeMap[n].sql, TRUE>>
GetColumnTypeName(f) == ColumnTypeNameOf(ColumnType(f), f)

\* opt.tinyInt1isBit, opt.yearIsDateType
ClassNameOf(n, f, opt) ==
  CASE n = "TINYINT" -> IF f.length = 1 /\ opt.tinyInt1isBit THEN "bool" ELSE "int32_t"
    [] n = "INTEGER" -> IF IsSigned(f) THEN "int32_t" ELSE "int64_t"
    [] n = "BIGINT" -> IF IsSigned(f) THEN "int64_t" ELSE "uint64_t"
    [] n = "YEAR" -> IF opt.yearIsDateType THEN "Date" ELSE "int16_t"
    [] n = "BIT" -> IF f.length = 1 THEN "bool" ELSE "[B"
    [] n \in {"STRING", "VARCHAR", "VARSTRING"} -> IF IsBinary(f) THEN "[B" ELSE "SQLString"
    [] OTHER -> TypeMap[n].class
GetClassName(f, opt) == ClassNameOf(ColumnType(f), f, opt)

ColumnSqlTypeOf(n, f, opt) ==
  CASE n = "BIT" -> IF f.length = 1 THEN "BIT" ELSE "VARBINARY"
    [] n = "TINYINT" -> IF f.length = 1 /\ opt.tinyInt1isBit THEN "BIT" ELSE "TINYINT"
    [] n = "YEAR" -> IF opt.yearIsDateType THEN "DATE" ELSE "SMALLINT"
    [] n = "BLOB" -> IF f.length > MediumLength THEN "LONGVARBINARY" ELSE "VARBINARY"
    [] n \in {"VARCHAR", "VARSTRING"} ->
         IF IsBinary(f) THEN "VARBINARY" ELSE IF f.length > LongLength THEN "LONGVARCHAR" ELSE "VARCHAR"
    [] n = "STRING" -> IF IsBinary(f) THEN "BINARY" ELSE "CHAR"
    [] OTHER -> TypeMap[n].sql
GetColumnType(f, opt) == ColumnSqlTypeOf(ColumnType(f), f, opt)

(* Labels and names: opt.useOldAlias, opt.blankTable, opt.forceAlias             *)
GetColumnName(f, opt) ==
  IF ~f.named \/ opt.useOldAlias \/ opt.forceAlias THEN "label" ELSE "original"
GetTableName(f, opt) ==
  CASE opt.forceAlias -> "alias"
    [] ~opt.forceAlias /\ opt.blankTable -> "blank"
    [] ~opt.forceAlias /\ ~opt.blankTable /\ opt.useOldAlias -> "alias"
    [] OTHER -> "original"

-----------------------------------------------------------------------------
(* The SQL type that DatabaseMetaData::getColumns reports for the same column,   *)
(* from the declared name of its type and its width.                             *)
DataTypeClause(declared, width, opt) ==
  CASE declared = "bit" -> "BIT"
    [] declared \in {"tinyblob", "varbinary"} -> "VARBINARY"
    [] declared \in {"mediumblob", "longblob", "blob"} -> "LONGVARBINARY"
    [] declared \in {"tinytext", "enum", "set", "varchar"} -> "VARCHAR"
    [] declared \in {"mediumtext", "longtext", "text"} -> "LONGVARCHAR"
    [] declared = "date" -> "DATE"
    [] declared \in {"datetime", "timestamp"} -> "TIMESTAMP"
    [] declared = "time" -> "TIME"
    [] declared = "decimal" -> "DECIMAL"
    [] declared = "double" -> "DOUBLE"
    [] declared = "float" -> "REAL"
    [] declared \in {"int", "mediumint"} -> "INTEGER"
    [] declared = "bigint" -> "BIGINT"
    [] declared = "smallint" -> "SMALLINT"
    [] declared = "char" -> "CHAR"
    [] declared = "binary" -> "BINARY"
    [] declared = "tinyint" -> IF opt.tinyInt1isBit /\ width = 1 THEN "BIT" ELSE "TINYINT"
    [] declared = "year" -> IF opt.yearIsDateType THEN "DATE" ELSE "SMALLINT"
    [] OTHER -> "OTHER"
=============================================================================
