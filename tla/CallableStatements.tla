------------------------- MODULE CallableStatements -------------------------
(* A callable statement: MariaDbProcedureStatement.cpp around the server-side      *)
(* prepared statement it holds, and what CallableParameterMetaData.cpp says of the *)
(* procedure. A procedure is [modes, selects, qualified]: the modes of its          *)
(* parameters, how many result sets it selects before the one with its outputs,    *)
(* and whether the call names its database. Parameter i is named i; its value       *)
(* after the execution numbered e is <<i, e>>.                                      *)
EXTENDS ColumnMetadata, SequencesExt

CONSTANTS Procedures,     \* the procedures a statement may be prepared for
          MaxExecutions   \* bound: executions of a statement

VARIABLE callable   \* the statement; see NewCallable

Positions(p) == 1..Len(p.modes)
DeclaredOutputs(p) == {i \in Positions(p) : p.modes[i] # "IN"}
Unmapped == <<>>
NoOutput == [execution |-> 0, shown |-> FALSE]
Refusal == <<"SQLException">>

(* Every parameter begins as an input that is no output, and stays an input: the   *)
(* setters go to the prepared statement and do not pass MariaDbProcedureStatement:: *)
(* setParameter. So hasInOutParameters, computed here, is never TRUE.               *)
NewCallable(p) ==
  [procedure |-> p, registered |-> {}, set |-> {}, fetchSize |-> 0, mapper |-> Unmapped, output |-> NoOutput,
   wire |-> <<>>, stored |-> 0, executions |-> 0, by |-> "nobody", moved |-> FALSE, metadata |-> FALSE, mapped |-> {}]

-----------------------------------------------------------------------------
(* What the server knows of the parameters. The name of a procedure that is called *)
(* with its database begins with the point and is not found.                       *)
ParameterRows(p) == IF p.qualified THEN <<>> ELSE [i \in Positions(p) |-> [name |-> i, mode |-> p.modes[i]]]

\* plausible slip: the outputs stay those of the first execution
KeptOutput(c) == IF c.stored = 0 THEN c ELSE [c EXCEPT !.output = [execution |-> c.stored, shown |-> FALSE]]

\* nameToIndex, and the row of nameToOutputIndex: 0 if nothing has the name
NameToIndex(p, name) ==
  LET rows == ParameterRows(p)
      named == {i \in 1..Len(rows) : rows[i].name = name}
  IN  IF named = {} THEN 0 ELSE CHOOSE i \in named : \A j \in named : i <= j
GetParameterMode(mode) ==
  CASE mode = "IN" -> "In" [] mode = "OUT" -> "Out" [] mode = "INOUT" -> "InOut" [] OTHER -> "Unknown"
GetParameterType(declared) ==
  CASE declared = "bit" -> "BIT"
    [] declared = "tinyint" -> "TINYINT"
    [] declared \in {"smallint", "year"} -> "SMALLINT"
    [] declared \in {"mediumint", "int", "int24", "integer"} -> "INTEGER"
    [] declared \in {"long", "bigint"} -> "BIGINT"
    [] declared \in {"real", "double"} -> "DOUBLE"
    [] declared = "float" -> "FLOAT"
    [] declared = "decimal" -> "DECIMAL"
    [] declared = "char" -> "CHAR"
    [] declared \in {"varchar", "enum", "tinytext", "set"} -> "VARCHAR"
    [] declared = "date" -> "DATE"
    [] declared = "time" -> "TIME"
    [] declared \in {"timestamp", "datetime"} -> "TIMESTAMP"
    [] declared = "binary" -> "BINARY"
    [] declared = "varbinary" -> "VARBINARY"
    [] declared \in {"tinyblob", "blob", "mediumblob", "longblob", "geometry"} -> "BLOB"
    [] declared \in {"text", "mediumtext", "longtext"} -> "CLOB"
    [] OTHER -> "OTHER"

-----------------------------------------------------------------------------
(* Setters and registrations                                                      *)

SetAt(c, i) == [c EXCEPT !.set = @ \cup {i}]
\* the positions of setParameter are checked by the prepared statement
SetByIndex == \E i \in Positions(callable.procedure) : callable' = SetAt(callable, i)
SetByName ==
  \E name \in Positions(callable.procedure) :
    LET i == NameToIndex(callable.procedure, name)
    IN  callable' = IF i = 0 THEN [callable EXCEPT !.metadata = TRUE] ELSE [SetAt(callable, i) EXCEPT !.metadata = TRUE]
ClearCallParameters == callable' = [callable EXCEPT !.set = {}]

Registered(c, i) == [c EXCEPT !.registered = @ \cup {i}]
RegisterOutParameter == \E i \in Positions(callable.procedure) : callable' = Registered(callable, i)
RegisterOutByName ==
  \E name \in Positions(callable.procedure) :
    LET i == NameToIndex(callable.procedure, name)
    IN  callable' = IF i = 0 THEN [callable EXCEPT !.metadata = TRUE] ELSE [Registered(callable, i) EXCEPT !.metadata = TRUE]
SetCallFetchSize == \E n \in {0, 1} : callable' = [callable EXCEPT !.fetchSize = n]

-----------------------------------------------------------------------------
(* Executions                                                                     *)

(* setInputOutputParameterMap: the outputs are numbered in the order of their       *)
(* positions. The vector it writes into is reserved but stays empty, so the next    *)
(* execution numbers them again and a clone has none of it.                         *)
OutputParameterMap(c) ==
  [i \in Positions(c.procedure) |->
     IF i \in c.registered THEN Cardinality({j \in c.registered : j <= i}) ELSE -1]
ValidateCall(c) == c.set = Positions(c.procedure)

(* The answers of a call: what it selects, the row of its outputs, the end. The     *)
(* first one is read with the execution, the others when they are asked for.        *)
Answers(p) ==
  [i \in 1..p.selects |-> "rows"] \o (IF DeclaredOutputs(p) = {} THEN <<>> ELSE <<"outputs">>) \o <<"end">>
ReadAnswer(c) ==
  [c EXCEPT !.wire = Tail(@), !.stored = IF Head(c.wire) = "outputs" THEN c.executions ELSE @]
\* a new Results object; the one before it dies, with the outputs it holds
Sent(c, by) ==
  ReadAnswer([c EXCEPT !.executions = @ + 1, !.wire = Answers(c.procedure), !.stored = 0, !.by = by, !.moved = FALSE])
\* the Results of an execution that the server refuses hold nothing
Refused(c) == [c EXCEPT !.executions = @ + 1, !.wire = <<>>, !.stored = 0, !.by = "refused", !.moved = FALSE]
RetrieveOutputResult(c) == [c EXCEPT !.output = [execution |-> c.stored, shown |-> FALSE]]

ExecuteCall ==
  /\ callable.executions < MaxExecutions
  /\ LET c == [callable EXCEPT !.mapper = OutputParameterMap(callable), !.mapped = callable.registered]
     IN  \/ ~ValidateCall(c) /\ callable' = c
         \/ ValidateCall(c) /\ callable' = RetrieveOutputResult(Sent(c, "execute"))
         \/ ValidateCall(c) /\ callable' = Refused(c)
\* executeQuery, executeUpdate and executeLargeUpdate are those of the prepared statement
ExecuteOther ==
  /\ callable.executions < MaxExecutions
  /\ ValidateCall(callable)
  /\ callable' \in {Sent(callable, "other"), Refused(callable)}
MoreCallResults ==
  /\ callable.wire # <<>>
  /\ callable' = [ReadAnswer(callable) EXCEPT !.moved = TRUE]

-----------------------------------------------------------------------------
(* Getters                                                                        *)

(* getOutputResult: what is left on the wire is read only with a fetch size.        *)
RECURSIVE LoadAnswers(_)
LoadAnswers(c) == IF c.wire = <<>> THEN c ELSE LoadAnswers(ReadAnswer(c))
GetOutputResult(c) ==
  IF c.output.execution = 0 /\ c.fetchSize # 0 /\ c.executions > 0 THEN RetrieveOutputResult(LoadAnswers(c)) ELSE c

(* indexToOutputIndex: without a map it reads through the null pointer of an empty  *)
(* vector, as it may be evaluated before the outputs are asked for. The pointer to  *)
(* the outputs of an earlier execution dangles. A row that was not looked at before *)
(* the next answer was read is fetched again from a handle that has moved on.       *)
OutputGot(c, i) ==
  LET columns == SetToSortSeq(DeclaredOutputs(c.procedure), <)
  IN  CASE c.mapper = Unmapped -> <<"undefined">>
        [] c.output.execution = 0 -> Refusal
        [] c.output.execution # c.executions -> <<"dangling">>
        [] c.mapper[i] = -1 \/ c.mapper[i] > Len(columns) -> Refusal
        [] c.moved /\ ~c.output.shown -> <<"undefined">>
        [] OTHER -> <<"value", columns[c.mapper[i]], c.output.execution>>
ReadAt(c, i) ==
  LET loaded == GetOutputResult(c) IN [loaded EXCEPT !.output.shown = @ \/ OutputGot(loaded, i)[1] = "value"]
GetByIndex == \E i \in Positions(callable.procedure) : callable' = ReadAt(callable, i)
GetByName ==
  \E name \in Positions(callable.procedure) :
    LET i == NameToIndex(callable.procedure, name)
    IN  callable' = IF i = 0 THEN [callable EXCEPT !.metadata = TRUE] ELSE [ReadAt(callable, i) EXCEPT !.metadata = TRUE]

CallableInit == \E p \in Procedures : callable = NewCallable(p)
CallableNext ==
  \/ SetByIndex \/ SetByName \/ ClearCallParameters \/ RegisterOutParameter \/ RegisterOutByName \/ SetCallFetchSize
  \/ ExecuteCall \/ ExecuteOther \/ MoreCallResults \/ GetByIndex \/ GetByName
CallableSpec == CallableInit /\ [][CallableNext]_callable

-----------------------------------------------------------------------------
(* Properties                                                                     *)

(* A getter that answers with a value gives the one its parameter has after the    *)
(* last execution, if all output parameters, and no others, were registered        *)
(* before it. It never touches the outputs of an earlier execution unless the last  *)
(* one was not made by execute() or was refused.                                    *)
OutputIsOfItsParameter ==
  \A i \in Positions(callable.procedure) :
    LET got == OutputGot(GetOutputResult(callable), i)
    IN  /\ got[1] = "value" /\ callable.mapped = DeclaredOutputs(callable.procedure) => got = <<"value", i, callable.executions>>
        /\ got = <<"dangling">> => callable.by # "execute"

(* A procedure that selects nothing gives all its outputs after execute(), by      *)
(* index and, unless its database is named, by name; with a fetch size one that     *)
(* selects does too.                                                                *)
OutputsAreReachable ==
  LET c == callable
      loaded == GetOutputResult(c)
  IN  c.by = "execute" /\ ~c.moved /\ c.mapped = DeclaredOutputs(c.procedure) /\ (c.procedure.selects = 0 \/ c.fetchSize # 0) =>
        \A i \in DeclaredOutputs(c.procedure) :
          /\ OutputGot(loaded, i) = <<"value", i, c.executions>>
          /\ NameToIndex(c.procedure, i) = IF c.procedure.qualified THEN 0 ELSE i

\* SQL types of one kind
Kind(sql) ==
  CASE sql \in {"BLOB", "VARBINARY", "LONGVARBINARY", "BINARY"} -> "bytes"
    [] sql \in {"CLOB", "VARCHAR", "LONGVARCHAR", "CHAR"} -> "text"
    [] sql \in {"FLOAT", "REAL", "DOUBLE"} -> "approximate"
    [] OTHER -> sql
ParameterTypes == {"bit", "tinyint", "smallint", "mediumint", "int", "bigint", "double", "float", "decimal", "char", "varchar",
  "enum", "set", "tinytext", "text", "mediumtext", "longtext", "date", "time", "datetime", "timestamp", "binary", "varbinary",
  "tinyblob", "blob", "mediumblob", "longblob", "year"}

(* Once the parameters of a procedure are read, their modes are the declared ones, *)
(* and their types are of the kind that getProcedureColumns reports for the same    *)
(* declaration; TINYINT(1) and YEAR are reported by their options there only.       *)
ParametersAreDescribed ==
  callable.metadata =>
    /\ \A i \in 1..Len(ParameterRows(callable.procedure)) :
         LET mode == GetParameterMode(ParameterRows(callable.procedure)[i].mode)
         IN  /\ (mode \in {"Out", "InOut"}) = (i \in DeclaredOutputs(callable.procedure))
             /\ (mode = "InOut") = (callable.procedure.modes[i] = "INOUT")
    /\ \A d \in ParameterTypes :
         Kind(GetParameterType(d)) = Kind(DataTypeClause(d, 4, [tinyInt1isBit |-> TRUE, yearIsDateType |-> FALSE]))

(* The output parameters of a procedure are reachable, are those of the last        *)
(* execution and are described as declared.                                          *)
OutputsAreRight == OutputIsOfItsParameter /\ OutputsAreReachable /\ ParametersAreDescribed
=============================================================================
