---------------------------- MODULE MCResultSets ----------------------------
(* Rows, cursors, the answers of statements and metadata, side by side: the scene *)
(* says which one moves, the others stand where they began. Columns: every type,  *)
(* with the values at the limits of the integer widths. Names: quotes, a point    *)
(* and a wildcard.                                                                *)
EXTENDS RowReader, DatabaseMetaData, ResultCursor, StatementResults, CallableStatements

\* the numbers next to the limits of every width, and halves
Limits ==
  UNION {{IntMin(b) - 1, IntMin(b), IntMax(b), IntMax(b) + 1, UIntMax(b), UIntMax(b) + 1} : b \in {1, 2, 3, 4, 8}}
Halves == {2 * n : n \in Limits} \cup {-3, -1, 0, 1, 3, 2 * IntMax(8) + 1}

Column(t, s, b, p, cell) == [type |-> t, signed |-> s, binary |-> b, padded |-> p, cell |-> cell]

\* MEDIUMINT has three bytes, a YEAR never needs its sign bit
HeldBy(t, s) ==
  LET b == CASE t = "INT24" -> 3 [] t = "YEAR" -> 1 [] OTHER -> IntBytes[t]
  IN  IF s THEN IntMin(b)..IntMax(b) ELSE 0..UIntMax(b)
IntColumns == {Column(t, s, TRUE, FALSE, Number(h)) : t \in IntTypes, s \in BOOLEAN, h \in Halves}
MCIntColumns == {c \in IntColumns : c.cell.half % 2 = 0 /\ (c.cell.half \div 2) \in HeldBy(c.type, c.signed)}
FloatColumns == {Column("FLOAT", TRUE, TRUE, FALSE, Number(ToFloat(h))) : h \in Halves}
DoubleColumns == {Column("DOUBLE", TRUE, TRUE, FALSE, Number(ToDouble(h))) : h \in Halves}
DecimalColumns == {Column("DECIMAL", TRUE, TRUE, p, Number(h)) : p \in BOOLEAN, h \in Halves}
BitColumns == {Column("BIT", FALSE, TRUE, FALSE, Bytes(s)) : s \in {<<0>>, <<1>>, <<3>>, <<1, 2>>, <<0, 3, 3>>}}
StringColumns ==
  {Column(t, TRUE, FALSE, FALSE, cell) : t \in StringTypes,
     cell \in {Number(h) : h \in Halves} \cup {Text("false"), Text("word")}
                \cup {Temporal(d, tm) : d \in {"zero", "short", "full"}, tm \in {"zero", "clock", "none"}}
                \cup {Temporal("none", tm) : tm \in {"zero", "clock"}}}
BytesColumns == {Column(t, TRUE, TRUE, FALSE, Bytes(s)) : t \in {"STRING", "VAR_STRING", "BLOB"},
                   s \in {<<>>, <<0>>, <<2>>, <<0, 2>>, <<1, 0>>, <<2, 3, 1, 0, 0>>, <<3, 3, 3, 3, 3, 3, 3, 3>>,
                          <<1, 0, 0, 0, 0, 0, 0, 0, 0>>}}
TemporalColumns ==
  {Column(t, TRUE, TRUE, FALSE, Temporal(d, tm)) : t \in {"DATETIME", "TIMESTAMP"},
                                                    d \in {"zero", "short", "full"}, tm \in {"zero", "clock"}}
    \cup {Column("DATE", TRUE, TRUE, FALSE, Temporal(d, "none")) : d \in {"zero", "short", "full"}}
    \cup {Column("TIME", TRUE, TRUE, FALSE, Temporal("none", tm)) : tm \in {"zero", "clock"}}
NullColumns == {Column(t, s, TRUE, FALSE, Null) : t \in Types, s \in BOOLEAN}

MCColumns == MCIntColumns \cup FloatColumns \cup DoubleColumns \cup DecimalColumns \cup BitColumns
               \cup StringColumns \cup BytesColumns \cup TemporalColumns \cup NullColumns
MCOptions == [tinyInt1isBit : BOOLEAN, yearIsDateType : BOOLEAN,
              useOldAlias : BOOLEAN, forceAlias : BOOLEAN, blankTable : BOOLEAN]

MCSchemas == {<<"a">>, <<BackQuote, ".">>}
MCTableNames == {<<BackQuote>>, <<"_">>}
MCQuotedNames == {<<"t">>, <<"t", BackQuote>>}
MCKeyNames == {<<"k">>, <<"k", BackQuote, ".">>}
MCRulePairs == {<<"RESTRICT", "CASCADE">>, <<"SET NULL", "NO ACTION">>}

\* a result of up to four rows, fetched at once, one by one or by twos
MCFetchSizes == {0, 1, 2}
MCSteps == {-2, 0, 3}

\* commands with one to three answers
MCScripts == {<<OkPart>>, <<ErrPart>>, <<2>>, <<1, OkPart>>, <<OkPart, 1, ErrPart>>, <<1, 2, OkPart>>}

\* procedures with and without outputs, that select first or not
Procedure(modes, selects, qualified) == [modes |-> modes, selects |-> selects, qualified |-> qualified]
MCProcedures ==
  {Procedure(<<"IN", "OUT">>, s, q) : s \in {0, 1}, q \in BOOLEAN}
    \cup {Procedure(<<"OUT", "IN", "INOUT">>, s, FALSE) : s \in {0, 1}} \cup {Procedure(<<"IN">>, 0, FALSE)}

\* which of the five moves
VARIABLE scene
Still(s, c) == scene = s \/ c
RowStill == column = CHOOSE c \in MCColumns : TRUE
CursorStill == cur = NewResultSet(FALSE, FALSE, 0, 0)
allVars == <<scene, rowVars, metaVars, cursorVars, resultsVars, callable>>
MCInit ==
  /\ scene \in {"rows", "metadata", "cursor", "results", "calls"}
  /\ RowInit /\ Still("rows", RowStill)
  /\ CursorInit /\ Still("cursor", CursorStill)
  /\ MetaInit /\ ResultsInit
  /\ CallableInit /\ Still("calls", callable = NewCallable(Procedure(<<"IN">>, 0, FALSE)))
MCNext ==
  /\ UNCHANGED scene
  /\ \/ scene = "rows" /\ RowNext /\ UNCHANGED <<metaVars, cursorVars, resultsVars, callable>>
     \/ scene = "metadata" /\ MetaNext /\ UNCHANGED <<rowVars, cursorVars, resultsVars, callable>>
     \/ scene = "cursor" /\ CursorNext /\ UNCHANGED <<rowVars, metaVars, resultsVars, callable>>
     \/ scene = "results" /\ ResultsNext /\ UNCHANGED <<rowVars, metaVars, cursorVars, callable>>
     \/ scene = "calls" /\ CallableNext /\ UNCHANGED <<rowVars, metaVars, cursorVars, resultsVars>>
MCSpec == MCInit /\ [][MCNext]_allVars
=============================================================================
