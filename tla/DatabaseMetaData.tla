-------------------------- MODULE DatabaseMetaData --------------------------
(* MariaDbDatabaseMetaData.cpp: what the driver tells of the tables, keys,       *)
(* routines and types of a server. The catalog is the server's: DDL statements   *)
(* of other sessions change it and USE changes the session's database. Every      *)
(* metadata call is an operator of the catalog, the options and its arguments;    *)
(* a query is the set it selects, an order is kept where a property is about it.  *)
(* Names are sequences of characters, because names are quoted, parsed and used   *)
(* as patterns. An empty name is what the API has for NULL.                       *)
EXTENDS Integers, Sequences, FiniteSets, SequencesExt, Quoting, ColumnMetadata

CONSTANTS
  Schemas,      \* names of databases
  TableNames,
  KeyNames,     \* names of foreign keys and of unique keys
  RulePairs,    \* <<on update, on delete>>, out of what InnoDB accepts
  MaxObjects    \* bound of the tables, keys and routines of the catalog

AnyOne == "_"
Rules == {"RESTRICT", "CASCADE", "SET NULL", "NO ACTION"}
ASSUME RulesAssumption == RulePairs \subseteq Rules \X Rules
TableKinds == {"BASE TABLE", "VIEW", "SYSTEM VIEW"}
ColC == <<"c">>
ColD == <<"d", BackQuote>>
Columns2 == <<ColC, ColD>>    \* the columns of every table, in their order

VARIABLES
  cat,    \* [tables, keys, routines]: the server's catalog
  using   \* the session's database, NoName when it has none

metaVars == <<cat, using>>

-----------------------------------------------------------------------------
(* The catalog of the server                                                     *)

MetaInit == cat = [tables |-> {}, keys |-> {}, routines |-> {}] /\ using = NoName

ObjectCount == Cardinality(cat.tables) + Cardinality(cat.keys) + Cardinality(cat.routines)

(* primary: the columns of the primary key; unique: the name of a unique key on   *)
(* the column c, which may be one that a foreign key has as well.                 *)
CreateTable(schema, name, kind, primary, unique) ==
  /\ ObjectCount < MaxObjects
  /\ \A x \in cat.tables : <<x.schema, x.name>> # <<schema, name>>
  /\ kind = "BASE TABLE" \/ (primary = <<>> /\ unique = NoName)
  /\ cat' = [cat EXCEPT !.tables = @ \cup
               {[schema |-> schema, name |-> name, kind |-> kind, primary |-> primary, unique |-> unique]}]
  /\ UNCHANGED using

(* A foreign key refers to the first columns of a primary key, in their order;    *)
(* its name is the only one of the schema.                                        *)
AddForeignKey(t, p, name, cols, onUpdate, onDelete) ==
  /\ ObjectCount < MaxObjects
  /\ t.kind = "BASE TABLE" /\ Len(cols) <= Len(p.primary)
  /\ \A k \in cat.keys : k.schema # t.schema \/ k.name # name
  /\ cat' = [cat EXCEPT !.keys = @ \cup
               {[name |-> name, schema |-> t.schema, table |-> t.name, cols |-> cols, refSchema |-> p.schema,
                 refTable |-> p.name, refCols |-> SubSeq(p.primary, 1, Len(cols)),
                 onUpdate |-> onUpdate, onDelete |-> onDelete]}]
  /\ UNCHANGED using

CreateRoutine(schema, name, kind) ==
  /\ ObjectCount < MaxObjects
  /\ \A r \in cat.routines : <<r.schema, r.name, r.kind>> # <<schema, name, kind>>
  /\ cat' = [cat EXCEPT !.routines = @ \cup {[schema |-> schema, name |-> name, kind |-> kind]}]
  /\ UNCHANGED using

UseDatabase(schema) == using # schema /\ using' = schema /\ UNCHANGED cat

MetaNext ==
  \/ \E s \in Schemas, t \in TableNames, k \in TableKinds, u \in KeyNames \cup {NoName},
        pk \in {<<>>, <<ColC>>, <<ColD, ColC>>} : CreateTable(s, t, k, pk, u)
  \/ \E t, p \in cat.tables, n \in KeyNames, cols \in {<<ColC>>, <<ColC, ColD>>}, r \in RulePairs :
        AddForeignKey(t, p, n, cols, r[1], r[2])
  \/ \E s \in Schemas, n \in TableNames, k \in {"PROCEDURE", "FUNCTION"} : CreateRoutine(s, n, k)
  \/ \E s \in Schemas : UseDatabase(s)

-----------------------------------------------------------------------------
(* Quoting and the parts of a condition                                          *)

\* plausible slip: one rule only is looked for
GetImportedKeyActionOfOne(part, event) == IF Contains(part, event \o "CASCADE") THEN "CASCADE" ELSE "RESTRICT"

\* LIKE of the server, for patterns of single characters
Like(name, pattern) ==
  Len(name) = Len(pattern) /\ \A i \in 1..Len(name) : pattern[i] \in {AnyOne, name[i]}

(* Names with a wildcard are patterns, the others are compared.                  *)
IsPattern(name) == Contains(name, AnyOne)
Matches(column, name) == IF IsPattern(name) THEN Like(column, name) ELSE column = name
PatternCond(column, name) == name = NoName \/ Matches(column, name)
SchemaPatternCond(column, name) == Matches(column, name)

(* An empty name is the session's database; without one, every database.         *)
CatalogCond(column, schema) ==
  IF schema = NoName THEN using = NoName \/ column = using ELSE column = schema

EscapeQuoteEquals(column, value) == value # NoName /\ column = value    \* "= NULL" selects nothing

-----------------------------------------------------------------------------
(* Tables, columns, keys                                                         *)

\* types: a sequence of names; the list of a call whose names are all empty is no SQL
TypeIn(kind, types) ==
  \E i \in 1..Len(types) : types[i] # "" /\ kind = (IF types[i] = "TABLE" THEN "BASE TABLE" ELSE types[i])
GetTables(schema, name, types) ==
  {[schema |-> x.schema, name |-> x.name, type |-> IF x.kind = "BASE TABLE" THEN "TABLE" ELSE x.kind] :
     x \in {y \in cat.tables : /\ SchemaPatternCond(y.schema, schema) /\ PatternCond(y.name, name)
                               /\ types = <<>> \/ TypeIn(y.kind, types)}}
GetTableTypes == {"TABLE", "SYSTEM VIEW", "VIEW"}

GetColumns(schema, name, column) ==
  {[schema |-> x.schema, name |-> x.name, column |-> Columns2[i], ordinal |-> i] :
     x \in {y \in cat.tables : CatalogCond(y.schema, schema) /\ PatternCond(y.name, name)},
     i \in {j \in 1..Len(Columns2) : PatternCond(Columns2[j], column)}}

GetPrimaryKeys(schema, name) ==
  UNION {{[schema |-> x.schema, name |-> x.name, column |-> x.primary[i], seq |-> i] : i \in 1..Len(x.primary)} :
           x \in {y \in cat.tables : SchemaPatternCond(y.schema, schema) /\ PatternCond(y.name, name)}}

\* of the server: COLUMN_KEY is PRI, or UNI for a unique key of one column; only the
\* columns of a primary key are NOT NULL
Keyed(x, column) == Contains(x.primary, column) \/ (x.unique # NoName /\ column = ColC)
NotNull(x, column) == Contains(x.primary, column)
GetBestRowIdentifier(schema, name) ==
  UNION {{column \in {ColC, ColD} : Keyed(x, column) /\ NotNull(x, column)} :
           x \in {y \in cat.tables : CatalogCond(y.schema, schema) /\ EscapeQuoteEquals(y.name, name)}}

Statistics(x) ==
  {[schema |-> x.schema, name |-> x.name, index |-> <<"PRIMARY">>, seq |-> i, column |-> x.primary[i]] : i \in 1..Len(x.primary)}
    \cup IF x.unique = NoName THEN {}
         ELSE {[schema |-> x.schema, name |-> x.name, index |-> x.unique, seq |-> 1, column |-> ColC]}
GetIndexInfo(schema, name) ==
  UNION {Statistics(x) : x \in {y \in cat.tables : EscapeQuoteEquals(y.name, name) /\ CatalogCond(y.schema, schema)}}

-----------------------------------------------------------------------------
(* Foreign keys of the information schema                                         *)

KeyRow(pkSchema, pkTable, pkColumn, k, i) ==
  [pkSchema |-> pkSchema, pkTable |-> pkTable, pkColumn |-> pkColumn, fkSchema |-> k.schema, fkTable |-> k.table,
   fkColumn |-> k.cols[i], seq |-> i, update |-> k.onUpdate, delete |-> k.onDelete, fkName |-> k.name]

\* KEY_COLUMN_USAGE joined with REFERENTIAL_CONSTRAINTS by schema and name: a unique
\* key that has the name of a foreign key is joined as well, and refers to nothing
KeyColumnUsage ==
  UNION {{KeyRow(k.refSchema, k.refTable, k.refCols[i], k, i) : i \in 1..Len(k.cols)} : k \in cat.keys}
    \cup {[KeyRow(NoName, NoName, NoName, k, 1) EXCEPT !.fkTable = x.name, !.fkColumn = ColC, !.seq = 0] :
            <<k, x>> \in {p \in cat.keys \X cat.tables : p[2].schema = p[1].schema /\ p[2].unique = p[1].name}}

GetImportedKeysUsingInformationSchema(schema, table) ==
  {r \in KeyColumnUsage : CatalogCond(r.fkSchema, schema) /\ EscapeQuoteEquals(r.fkTable, table)}
GetExportedKeys(schema, table) ==
  {r \in KeyColumnUsage : CatalogCond(r.pkSchema, schema) /\ EscapeQuoteEquals(r.pkTable, table)}
GetCrossReference(parentSchema, parentTable, foreignSchema, foreignTable) ==
  {r \in KeyColumnUsage :
     /\ CatalogCond(r.pkSchema, parentSchema) /\ CatalogCond(r.fkSchema, foreignSchema)
     /\ EscapeQuoteEquals(r.pkTable, parentTable) /\ EscapeQuoteEquals(r.fkTable, foreignTable)}

-----------------------------------------------------------------------------
(* Foreign keys read from SHOW CREATE TABLE. A line is a sequence of characters,  *)
(* blanks and keywords.                                                           *)

\* of the server: the line of a key; a rule of RESTRICT is not printed, the schema of
\* a table of the same schema neither
IdentifierList(names) ==
  <<"(">> \o FlattenSeq([i \in 1..Len(names) |->
      (IF i > 1 THEN <<",", " ">> ELSE <<>>) \o ServerQuotes(names[i])]) \o <<")">>
RuleClause(event, rule) == IF rule = "RESTRICT" THEN <<>> ELSE <<" ", event \o rule>>
KeyLine(k) ==
  <<"CONSTRAINT", " ">> \o ServerQuotes(k.name) \o <<" ", "FOREIGN KEY", " ">> \o IdentifierList(k.cols)
    \o <<" ", "REFERENCES", " ">>
    \o (IF k.refSchema = k.schema THEN <<>> ELSE ServerQuotes(k.refSchema) \o <<".">>)
    \o ServerQuotes(k.refTable) \o <<" ">> \o IdentifierList(k.refCols)
    \o RuleClause("ON DELETE ", k.onDelete) \o RuleClause("ON UPDATE ", k.onUpdate)
TableDef(schema, table) == {KeyLine(k) : k \in {x \in cat.keys : x.schema = schema /\ x.table = table}}

SkipWhite(part, pos) ==
  LET rest == {i \in pos..Len(part) : part[i] # " "}
  IN  IF rest = {} THEN Len(part) + 1 ELSE CHOOSE i \in rest : \A j \in rest : i <= j
SkipKeyword(part, pos, keyword) == SkipWhite(part, pos) + 1

(* The end of an identifier is the first run of an odd number of quotes; each     *)
(* pair in a run is a quote of the name. A point behind it makes it the schema.   *)
EndsIdentifier(quotes) == quotes % 2 = 1
RECURSIVE ScanIdentifier(_, _, _, _, _)
RECURSIVE ParseIdentifier(_, _, _)
ScanIdentifier(part, pos, sb, quotes, schema) ==
  IF part[pos] = BackQuote THEN ScanIdentifier(part, pos + 1, sb, quotes + 1, schema)
  ELSE LET text == sb \o [i \in 1..(quotes \div 2) |-> BackQuote]
       IN  IF EndsIdentifier(quotes)
           THEN IF part[pos] = "." THEN ParseIdentifier(part, pos + 1, text)
                ELSE [pos |-> pos, schema |-> schema, name |-> text]
           ELSE ScanIdentifier(part, pos + 1, Append(text, part[pos]), 0, schema)
ParseIdentifier(part, pos, schema) == ScanIdentifier(part, SkipWhite(part, pos) + 1, <<>>, 0, schema)

RECURSIVE ListFrom(_, _, _)
ListFrom(part, pos, names) ==
  LET at == SkipWhite(part, pos)
  IN  CASE part[at] = ")" -> [pos |-> at + 1, names |-> names]
        [] part[at] = "," -> ListFrom(part, at + 1, names)
        [] OTHER -> LET id == ParseIdentifier(part, at, NoName) IN ListFrom(part, id.pos, Append(names, id.name))
ParseIdentifierList(part, pos) == ListFrom(part, SkipWhite(part, pos) + 1, <<>>)

(* The rules are searched in the whole line: the last of the four that is there.  *)
GetImportedKeyAction(part, event) ==
  LET found == SelectSeq(<<"RESTRICT", "CASCADE", "SET NULL", "NO ACTION">>, LAMBDA r : Contains(part, event \o r))
  IN  IF found = <<>> THEN "RESTRICT" ELSE Last(found)

GetImportedKeysOfLine(part, schema, table) ==
  LET name == ParseIdentifier(part, SkipKeyword(part, 1, "CONSTRAINT"), NoName)
      fk == ParseIdentifierList(part, SkipKeyword(part, name.pos, "FOREIGN KEY"))
      pkTable == ParseIdentifier(part, SkipKeyword(part, fk.pos, "REFERENCES"), NoName)
      pk == ParseIdentifierList(part, pkTable.pos)
  IN  {[pkSchema |-> IF pkTable.schema = NoName THEN schema ELSE pkTable.schema, pkTable |-> pkTable.name,
        pkColumn |-> pk.names[i], fkSchema |-> schema, fkTable |-> table, fkColumn |-> fk.names[i], seq |-> i,
        update |-> GetImportedKeyAction(part, "ON UPDATE "), delete |-> GetImportedKeyAction(part, "ON DELETE "),
        fkName |-> name.name] : i \in 1..Len(pk.names)}

(* The table that the server shows is the one that it reads from the quoted names; *)
(* the rows have the names of the call. Without such a table, or with a line that  *)
(* is not understood, the exception lets the information schema answer.            *)
ShownTables(schema, table) ==
  {x \in cat.tables : /\ ServerQuotes(x.schema) = QuoteIdentifier(schema)
                      /\ ServerQuotes(x.name) = QuoteIdentifier(table)}
GetImportedKeysUsingShowCreateTable(x, schema, table) ==
  UNION {GetImportedKeysOfLine(part, schema, table) : part \in TableDef(x.schema, x.name)}
GetImportedKeys(schema, table) ==
  IF schema = NoName \/ ShownTables(schema, table) = {} THEN GetImportedKeysUsingInformationSchema(schema, table)
  ELSE UNION {GetImportedKeysUsingShowCreateTable(x, schema, table) : x \in ShownTables(schema, table)}

-----------------------------------------------------------------------------
(* Routines. The schema of a procedure is reported as its schema, but the columns  *)
(* of a procedure are asked for with the catalog; functions have it as catalog.    *)

GetProcedures(schema, name) ==
  {r \in cat.routines : /\ IF schema = NoName THEN CatalogCond(r.schema, schema) ELSE PatternCond(r.schema, schema)
                        /\ PatternCond(r.name, name)}
RoutineColumns(rs) ==
  {[schema |-> r.schema, name |-> r.name, kind |-> r.kind, mode |-> IF r.kind = "FUNCTION" THEN "return" ELSE "in"] : r \in rs}
GetProcedureColumns(catalog, name) ==
  RoutineColumns({r \in cat.routines : CatalogCond(r.schema, catalog) /\ PatternCond(r.name, name)})
GetFunctions(catalog, name) ==
  {r \in cat.routines : /\ CatalogCond(r.schema, catalog) /\ PatternCond(r.name, name) /\ r.kind = "FUNCTION"}
GetFunctionColumns(catalog, name) ==
  RoutineColumns({r \in cat.routines : /\ CatalogCond(r.schema, catalog) /\ PatternCond(r.name, name)
                                       /\ r.kind = "FUNCTION"})

-----------------------------------------------------------------------------
(* Types                                                                          *)

\* TYPE_NAME of getColumns: the declared type in capitals and without its size
ColumnTypeClause(declared, width, unsigned, opt) ==
  CASE declared = "tinyint" /\ width = 1 /\ opt.tinyInt1isBit -> <<"bit", FALSE>>
    [] declared = "year" /\ ~opt.yearIsDateType -> <<"smallint", FALSE>>
    [] OTHER -> <<declared, unsigned>>

\* getTypeInfo: [name, unsigned] and DATA_TYPE of every row
Listed(name, type) == <<<<name, FALSE>>, type>>
ListedUnsigned(name, type) == <<<<name, TRUE>>, type>>

TypeInfoNumbers ==
  {Listed("bit", "BIT"), Listed("bool", "BIT"), Listed("tinyint", "TINYINT"), ListedUnsigned("tinyint", "TINYINT"),
   Listed("bigint", "BIGINT"), ListedUnsigned("bigint", "BIGINT"), Listed("LONG VARBINARY", "LONGVARBINARY")}
TypeInfoBinaries ==
  {Listed(n, "LONGVARBINARY") : n \in {"mediumblob", "longblob", "blob", "tinyblob"}}
    \cup {Listed("varbinary", "VARBINARY"), Listed("binary", "BINARY"), Listed("LONG VARCHAR", "LONGVARCHAR")}
TypeInfoTexts ==
  {Listed(n, "LONGVARCHAR") : n \in {"mediumtext", "longtext", "text", "tinytext"}}
    \cup {Listed("char", "CHAR"), Listed("NUMERIC", "NUMERIC"), Listed("decimal", "DECIMAL")}
TypeInfoIntegers ==
  {Listed(n, "INTEGER") : n \in {"INTEGER", "int", "mediumint"}}
    \cup {ListedUnsigned(n, "INTEGER") : n \in {"INTEGER", "int", "mediumint"}}
    \cup {Listed("smallint", "SMALLINT"), ListedUnsigned("smallint", "SMALLINT")}
TypeInfoOthers ==
  {Listed("float", "REAL"), Listed("double", "DOUBLE"), Listed("DOUBLE PRECISION", "DOUBLE"), Listed("REAL", "DOUBLE"),
   Listed("varchar", "VARCHAR"), Listed("enum", "VARCHAR"), Listed("set", "VARCHAR"), Listed("date", "DATE"),
   Listed("time", "TIME"), Listed("datetime", "TIMESTAMP"), Listed("timestamp", "TIMESTAMP")}
GetTypeInfo == TypeInfoNumbers \cup TypeInfoBinaries \cup TypeInfoTexts \cup TypeInfoIntegers \cup TypeInfoOthers

ConvertNumbers == {"TINYINT", "SMALLINT", "INTEGER", "BIGINT", "REAL", "FLOAT", "DECIMAL", "NUMERIC", "DOUBLE", "BIT", "BOOLEAN"}
ConvertTexts == {"CHAR", "VARCHAR", "LONGVARCHAR", "BINARY", "VARBINARY", "LONGVARBINARY"}
SupportsConvert(from, to) ==
  CASE from \in ConvertNumbers \cup {"BLOB"} -> to \in ConvertNumbers \cup ConvertTexts
    [] from \in ConvertTexts \cup {"CLOB"} ->
         to \in ConvertNumbers \cup ConvertTexts
                 \cup {"DATE", "TIME", "TIMESTAMP", "BLOB", "CLOB", "NCHAR", "LONGNVARCHAR", "NCLOB"}
    [] from \in {"DATE", "TIME"} -> to \in ConvertTexts \cup {from}
    [] from = "TIMESTAMP" -> to \in ConvertTexts \cup {"TIMESTAMP", "TIME", "DATE"}
    [] OTHER -> FALSE

-----------------------------------------------------------------------------
(* Properties                                                                     *)

\* a unique key that has the name of a foreign key of its schema appears in the keys
\* of the information schema with nothing it refers to: such schemas are left out
NameOfKeyIsShared(schema) ==
  \E x \in cat.tables, k \in cat.keys : x.schema = schema /\ k.schema = schema /\ x.unique = k.name

(* The keys a table imports are the same whether they are parsed from SHOW CREATE  *)
(* TABLE (getImportedKeys with a schema) or selected from the information schema   *)
(* (without one), with quotes, points and several columns in the names; and every  *)
(* key that a table imports is exported by the table it refers to and is the       *)
(* cross reference of the two.                                                     *)
KeysAgree ==
  \A x \in cat.tables : QuotedRight(x.schema) /\ QuotedRight(x.name) /\ ~NameOfKeyIsShared(x.schema) =>
    LET imported == GetImportedKeys(x.schema, x.name)
    IN  /\ imported = GetImportedKeysUsingInformationSchema(x.schema, x.name)
        /\ \A r \in imported :
             /\ r \in GetExportedKeys(r.pkSchema, r.pkTable)
             /\ r \in GetCrossReference(r.pkSchema, r.pkTable, x.schema, x.name)
             /\ \E c \in GetPrimaryKeys(r.pkSchema, r.pkTable) : c.column = r.pkColumn /\ c.seq = r.seq
        /\ using = x.schema => imported = GetImportedKeys(NoName, x.name)
        /\ \A r \in GetExportedKeys(x.schema, x.name) :
             ~NameOfKeyIsShared(r.fkSchema) => r \in GetImportedKeysUsingInformationSchema(r.fkSchema, r.fkTable)

(* What one call reports, the others find: the schema and the name that getTables  *)
(* gives for a table lead getColumns, getPrimaryKeys, getIndexInfo and             *)
(* getBestRowIdentifier to this table and to no other, whichever database the      *)
(* session uses; the same for getFunctions and getFunctionColumns, and for         *)
(* getProcedures in the session's database. Names with a wildcard are left out:    *)
(* getPrimaryKeys takes them for patterns.                                         *)
ReportedIsFound ==
  /\ \A s \in Schemas : \A row \in GetTables(s, NoName, <<>>) :
       LET mine(rows) == \A r \in rows : r.schema = row.schema /\ r.name = row.name
           table == CHOOSE x \in cat.tables : x.schema = row.schema /\ x.name = row.name
       IN  ~IsPattern(row.name) /\ ~IsPattern(row.schema) =>
             /\ row.type \in GetTableTypes /\ row \in GetTables(row.schema, row.name, <<row.type>>)
             /\ {r.column : r \in GetColumns(row.schema, row.name, NoName)} = {ColC, ColD}
             /\ mine(GetColumns(row.schema, row.name, NoName)) /\ mine(GetPrimaryKeys(row.schema, row.name))
             /\ mine(GetIndexInfo(row.schema, row.name))
             /\ GetBestRowIdentifier(row.schema, row.name) = {r.column : r \in GetPrimaryKeys(row.schema, row.name)}
             /\ {r.column : r \in GetPrimaryKeys(row.schema, row.name)} = ToSet(table.primary)
  /\ \A s \in Schemas : \A r \in GetFunctions(s, NoName) :
       ~IsPattern(r.name) => GetFunctionColumns(r.schema, r.name) = RoutineColumns({r})
  /\ using # NoName => \A r \in GetProcedures(using, NoName) : ~IsPattern(r.name) /\ ~IsPattern(using) =>
       /\ RoutineColumns({r}) \subseteq GetProcedureColumns(NoName, r.name)
       /\ \A c \in GetProcedureColumns(NoName, r.name) : c.schema = r.schema /\ c.name = r.name

(* "Escaped identifier according to MariaDB requirement": the server reads from    *)
(* what enquoteIdentifier and quoteIdentifier return the name that they were       *)
(* given, so SHOW CREATE TABLE shows the table that was asked for.                 *)
NamesAreQuoted ==
  \A x \in cat.tables : /\ EnquoteIdentifier(x.name, FALSE) = ServerQuotes(x.name)
                         /\ ShownTables(x.schema, x.name) = {x}

\* types that getTypeInfo lists differently, or not at all
ListedOtherwise == {"tinyblob", "tinytext", "year"}
DeclaredTypes ==
  {"bit", "tinyint", "smallint", "mediumint", "int", "bigint", "float", "double", "decimal", "char", "varchar", "binary",
   "varbinary", "tinyblob", "blob", "mediumblob", "longblob", "tinytext", "text", "mediumtext", "longtext", "enum", "set",
   "date", "time", "datetime", "timestamp", "year"}

(* The name of a type that getColumns reports is listed by getTypeInfo with the    *)
(* DATA_TYPE that getColumns reports for the column, for every declared type,      *)
(* width and option, and a type that is listed is convertible to itself and to a   *)
(* text. The catalog makes no difference: it is asked once, while it is empty and  *)
(* a database is in use.                                                           *)
TypesAreListed == ObjectCount = 0 /\ using # NoName =>
  /\ \A d \in DeclaredTypes \ ListedOtherwise, w \in {1, 4}, u \in BOOLEAN, t, y \in BOOLEAN :
       LET opt == [tinyInt1isBit |-> t, yearIsDateType |-> y]
           name == ColumnTypeClause(d, w, u /\ d \in {"tinyint", "smallint", "mediumint", "int", "bigint"}, opt)
       IN  <<name, DataTypeClause(d, w, opt)>> \in GetTypeInfo
  /\ \A row \in GetTypeInfo : SupportsConvert(row[2], row[2]) /\ SupportsConvert(row[2], "VARCHAR")

(* The metadata calls agree about one catalog: keys by either way, objects that    *)
(* one call reports and another is asked for, and types.                           *)
CatalogAgrees == KeysAgree /\ ReportedIsFound /\ TypesAreListed
=============================================================================
