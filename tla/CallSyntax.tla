----------------------------- MODULE CallSyntax -----------------------------
(* The escape syntax and the texts that the driver takes apart itself: nativeSql,  *)
(* parseSessionVariables and skipCommentsAndBlanks of util/Utils.cpp, and the call *)
(* syntax of MariaDbConnection::prepareCall. A text is a sequence of characters;   *)
(* a word without blanks counts as one. The application writes a text from pieces  *)
(* whose meaning is known, and the functions must find that meaning.               *)
EXTENDS Integers, Sequences, SequencesExt

CONSTANTS Pieces(_),  \* what a query may be made of, with backslash escapes or without
          MaxPieces,  \* bound: pieces of a query, settings of a list
          SessionSettings, \* assignments of the option sessionVariables
          Calls,      \* calls of procedures and functions
          Prepared    \* statements to prepare: comments, a verb, the rest

ASSUME SyntaxAssumption == MaxPieces \in Nat

DoubleQuote == "dq"
Blank == {" ", "nl"}
Quotes == {"'", DoubleQuote, "bq"}
Has(text, c) == \E i \in 1..Len(text) : text[i] = c
From(text, i) == SubSeq(text, i, Len(text))
FirstAt(text, c, from) ==
  LET at == {i \in from..Len(text) : text[i] = c} IN IF at = {} THEN 0 ELSE CHOOSE i \in at : \A j \in at : i <= j
LastAt(text, c) ==
  LET at == {i \in 1..Len(text) : text[i] = c} IN IF at = {} THEN 0 ELSE CHOOSE i \in at : \A j \in at : i >= j
Trim(text) ==
  LET at == {i \in 1..Len(text) : text[i] \notin Blank}
  IN  IF at = {} THEN <<>>
      ELSE SubSeq(text, CHOOSE i \in at : \A j \in at : i <= j, CHOOSE i \in at : \A j \in at : i >= j)
Failed == <<"SQLException">>

-----------------------------------------------------------------------------
(* nativeSql                                                                      *)

ConvertedType(type) ==
  CASE type \in {"BIGINT", "SMALLINT", "TINYINT"} -> "SIGNED INTEGER"
    [] type = "BIT" -> "UNSIGNED INTEGER"
    [] type \in {"BLOB", "VARBINARY", "LONGVARBINARY", "ROWID"} -> "BINARY"
    [] type \in {"NCHAR", "CLOB", "NCLOB", "DATALINK", "VARCHAR", "NVARCHAR", "LONGVARCHAR", "LONGNVARCHAR", "SQLXML",
                 "LONGNCHAR"} -> "CHAR"
    [] type \in {"DOUBLE", "FLOAT"} -> "DOUBLE"
    [] type \in {"REAL", "NUMERIC"} -> "DECIMAL"
    [] type = "TIMESTAMP" -> "DATETIME"
    [] OTHER -> type

\* the first place from i on that holds none of these
PastAny(text, i, chars) == CHOOSE j \in i..(Len(text) + 1) :
  (j > Len(text) \/ text[j] \notin chars) /\ \A k \in i..(j - 1) : text[k] \in chars

(* The last argument of CONVERT is a type and the first of TIMESTAMPADD a unit, in  *)
(* the names of the standard. A server that cannot convert to DOUBLE adds 0.0. For  *)
(* these and for BOOLEAN the value is cut out with a length that ends behind the    *)
(* comma: "cut" stands for what is taken too much.                                  *)
ReplaceFunctionParameter(text, oldServer) ==
  LET name == IF text = <<>> THEN "" ELSE text[1]
      comma == LastAt(text, ",")
      at == PastAny(text, comma + 1, Blank)
      type == PastAny(text, at, {"SQL_"})
      value == SubSeq(text, FirstAt(text, "(", 1) + 1, comma) \o <<"cut">>
      unit == PastAny(text, 2, Blank \cup {"("})
      Replaced(from, to, new) == SubSeq(text, 1, from - 1) \o new \o From(text, to)
  IN  CASE name = "convert" /\ type <= Len(text) ->
             CASE text[type] = "BOOLEAN" -> <<"1=">> \o value
               [] text[type] \in {"DOUBLE", "FLOAT"} /\ oldServer -> <<"0.0+">> \o value
               [] OTHER -> Replaced(at, type + 1, <<ConvertedType(text[type])>>)
        [] name \in {"timestampadd", "timestampdiff"} /\ unit <= Len(text) /\ text[unit] = "SQL_TSI_" ->
             Replaced(unit, unit + 1, <<>>)
        [] OTHER -> text

(* The scanner of nativeSql: the quote and the comment it is in, how many braces    *)
(* are open, the escape sequence read so far and what is written.                   *)
NewScan == [last |-> "", quote |-> "", comment |-> "", depth |-> 0, escape |-> <<>>, out |-> <<>>]
AtQuote(s, c) ==
  IF s.quote = c THEN [s EXCEPT !.quote = ""] ELSE IF s.quote = "" THEN [s EXCEPT !.quote = c] ELSE s
AtSlash(s, c) ==
  CASE s.comment = "star" /\ s.last = "*" -> [s EXCEPT !.comment = ""]
    [] s.comment = "line" /\ s.last = c -> [s EXCEPT !.comment = ""]
    [] s.comment = "" /\ s.last = c -> [s EXCEPT !.comment = "line"]
    [] s.comment = "" /\ s.last = "*" -> [s EXCEPT !.comment = "star"]
    [] OTHER -> s
Scanned(s, c) ==
  CASE c \in Quotes /\ s.comment = "" -> AtQuote(s, c)
    [] c = "*" /\ s.quote = "" /\ s.comment = "" /\ s.last = "/" -> [s EXCEPT !.comment = "star"]
    [] c \in {"/", "-"} /\ s.quote = "" -> AtSlash(s, c)
    [] c = "nl" /\ s.comment = "line" -> [s EXCEPT !.comment = ""]
    [] c = "{" /\ s.quote = "" /\ s.comment = "" -> [s EXCEPT !.depth = @ + 1]
    [] c = "}" /\ s.quote = "" /\ s.comment = "" -> [s EXCEPT !.depth = @ - 1]
    [] OTHER -> s
Written(s, c) == IF s.depth > 0 THEN [s EXCEPT !.escape = Append(@, c)] ELSE [s EXCEPT !.out = Append(@, c)]

RECURSIVE NativeSql(_, _)
RECURSIVE ResolveEscapes(_, _)

(* A character behind a backslash is written to the buffer even when it is part of  *)
(* an escape sequence.                                                              *)
NativeStep(s, c, session) ==
  IF s.out = Failed THEN s
  ELSE IF s.last = "\\" /\ ~session.noBackslashEscapes THEN [s EXCEPT !.out = Append(@, c), !.last = ""]
  ELSE LET next == Scanned(s, c)
           resolved == ResolveEscapes(Append(next.escape, c), session)
       IN  IF c = "}" /\ next.depth = 0 /\ s.depth # 0
           THEN [next EXCEPT !.out = IF resolved = Failed THEN Failed ELSE @ \o resolved, !.escape = <<>>]
           ELSE Written([next EXCEPT !.last = c], c)
NativeSql(text, session) ==
  IF ~Has(text, "{") THEN text
  ELSE LET end == FoldLeft(LAMBDA s, c : NativeStep(s, c, session), NewScan, text)
       IN  IF end.depth > 0 THEN Failed ELSE end.out

\* {fn f()}, {oj ...}, {d '...'}, {t '...'}, {ts '...'}, {call p}, {escape '.'}, {?=call f}
ResolveEscapes(text, session) ==
  LET inner(n) == SubSeq(text, n, Len(text) - 1)
      word == text[2]
      spaced == Len(text) > 2 /\ text[3] = " "
      quoted == Len(text) > 2 /\ text[3] = "'"
      dense == PastAny(text, 2, Blank)
  IN  CASE word = "fn" /\ spaced -> NativeSql(ReplaceFunctionParameter(inner(4), session.oldServer), session)
        [] word = "oj" /\ spaced -> NativeSql(inner(4), session)
        [] word \in {"d", "t", "ts"} /\ spaced -> inner(4)
        [] word \in {"d", "t", "ts"} /\ quoted -> inner(3)
        [] word = "call" /\ spaced -> NativeSql(inner(2), session)
        [] word = "escape" /\ spaced -> inner(2)
        [] word = "?" -> NativeSql(inner(IF text[3] = "=" THEN 4 ELSE 3), session)
        [] word \in Blank /\ dense <= Len(text) -> ResolveEscapes(<<"{">> \o From(text, dense), session)
        [] OTHER -> text

-----------------------------------------------------------------------------
(* parseSessionVariables: "escape" in quotes goes on as "Quote", which nothing ends,  *)
(* and in double quotes as the string that it was.                                    *)
NewParse == [state |-> "Normal", single |-> TRUE, isKey |-> TRUE, key |-> <<>>, sb |-> <<>>, out |-> <<>>, first |-> TRUE]
Listed(s, text) == [s EXCEPT !.out = (IF s.first THEN @ ELSE Append(@, ",")) \o text, !.first = FALSE]
Flushed(s) ==
  IF ~s.isKey THEN Listed(s, s.key \o s.sb)
  ELSE IF Trim(s.sb) = <<>> THEN s
  ELSE Listed(s, Trim(s.sb))

ParsedChar(s, c) ==
  LET normal == s.state = "Normal"
      mine == s.single = (c = "'")
      kept == [s EXCEPT !.sb = Append(@, c)]
  IN  CASE s.state = "Escape" -> [kept EXCEPT !.state = IF s.single THEN "Quote" ELSE "String"]
        [] c \in {"'", DoubleQuote} /\ normal -> [kept EXCEPT !.state = "String", !.single = c = "'"]
        [] c \in {"'", DoubleQuote} /\ s.state = "String" /\ mine -> [kept EXCEPT !.state = "Normal"]
        [] c = "\\" /\ s.state = "String" -> [kept EXCEPT !.state = "Escape"]
        [] c \in {";", ","} /\ normal -> [Flushed(s) EXCEPT !.isKey = TRUE, !.key = <<>>, !.sb = <<>>]
        [] c = "=" /\ normal /\ s.isKey -> [s EXCEPT !.key = Trim(s.sb), !.isKey = FALSE, !.sb = <<c>>]
        [] OTHER -> kept
ParseSessionVariables(text) == Flushed(FoldLeft(ParsedChar, NewParse, text)).out

-----------------------------------------------------------------------------
(* skipCommentsAndBlanks: the first place of text that is neither. A blank does not   *)
(* count as the last character.                                                       *)
SkipState(s, c) ==
  CASE c = "*" /\ s.state = "Normal" /\ s.last = "/" -> "SlashStarComment"
    [] c = "/" /\ s.state = "SlashStarComment" /\ s.last = "*" -> "Normal"
    [] c \in {"/", "-"} /\ s.state = "Normal" /\ s.last = c -> "EOLComment"
    [] c = "#" /\ s.state = "Normal" -> "EOLComment"
    [] c = "nl" /\ s.state = "EOLComment" -> "Normal"
    [] OTHER -> s.state
SkipStep(s, c) ==
  CASE s.found -> s
    [] s.state = "Normal" /\ c \notin {"*", "/", "#", "-", "nl", " "} -> [s EXCEPT !.found = TRUE]
    [] s.state = "Normal" /\ c = " " -> [s EXCEPT !.at = @ + 1]
    [] OTHER -> [s EXCEPT !.state = SkipState(s, c), !.last = c, !.at = @ + 1]
\* plausible slip: the rest of a line is read as if it were no comment
SkipCommentsAndBlanksOnly(text, from) == PastAny(text, from, Blank)
SkipCommentsAndBlanks(text, from) ==
  FoldLeft(SkipStep, [at |-> from, state |-> "Normal", last |-> "", found |-> FALSE], From(text, from)).at

(* prepareCall: the database and the procedure of [{][?=]call [database.]procedure[(...)][}].  *)
(* The name of a procedure with a database keeps the point.                                     *)
NoCall == [refused |-> TRUE]
At(text, i) == IF i \in 1..Len(text) THEN text[i] ELSE ""
\* the matches of the pattern: the name and the arguments
CallNamed(name, arguments, isFunction, session) ==
  LET point == FirstAt(name, ".", 1)
  IN  [refused |-> FALSE, isFunction |-> isFunction, arguments |-> arguments,
       database |-> IF point > 1 THEN SubSeq(name, 1, point - 1) ELSE session.database,
       procedure |-> IF point > 0 THEN From(name, point) ELSE name]
CallWith(query, start, open, close, isFunction, session) ==
  CASE open = 0 -> CallNamed(From(query, start), <<>>, isFunction, session)
    [] open > 0 /\ close = 0 -> NoCall
    [] OTHER -> CallNamed(SubSeq(query, start, open - 1), SubSeq(query, open + 1, close - 1), isFunction, session)
CallFrom(query, start, isFunction, session) ==
  LET open == FirstAt(query, "(", start)
  IN  CallWith(query, start, open, FirstAt(query, ")", open + 1), isFunction, session)
CallIn(query, call, isFunction, session) ==
  IF Len(query) < call + 2 \/ At(query, call) # "call" THEN NoCall
  ELSE CallFrom(query, SkipCommentsAndBlanks(query, call + 2), isFunction, session)
BracedCall(query, isFunction, session) ==
  IF query = Failed THEN NoCall ELSE CallIn(query, SkipCommentsAndBlanks(query, 1), isFunction, session)
\* a brace at first, and what stands at second behind it
CallAt(text, first, second, session) ==
  CASE At(text, first) # "{" -> CallIn(text, first, FALSE, session)
    [] At(text, first) = "{" /\ At(text, second) # "?" -> BracedCall(NativeSql(text, session), FALSE, session)
    [] OTHER -> IF At(text, SkipCommentsAndBlanks(text, second + 1)) # "=" THEN NoCall
                ELSE BracedCall(NativeSql(text, session), TRUE, session)
PrepareCall(text, session) ==
  LET first == SkipCommentsAndBlanks(text, 1) IN CallAt(text, first, SkipCommentsAndBlanks(text, first + 1), session)

-----------------------------------------------------------------------------
(* prepareStatement: by the first word behind comments and blanks, a statement is       *)
(* prepared on the server if the option useServerPrepStmts asks for it, and parsed by   *)
(* the driver otherwise. A statement that begins with a brace or a parenthesis is not    *)
(* for the server.                                                                       *)
OnServer == {"select", "show", "update", "insert", "do", "delete", "replace", "call"}
ShouldPrepareOnServer(text) == At(text, SkipCommentsAndBlanks(text, 1)) \in OnServer
StatementOf(query, server, scroll, keys) ==
  IF query = Failed THEN [refused |-> TRUE]
  ELSE [refused |-> FALSE, query |-> query, server |-> server, scroll |-> scroll, keys |-> keys]
InternalPrepareStatement(text, scroll, keys, session) ==
  IF text = <<>> THEN [refused |-> TRUE]
  ELSE StatementOf(NativeSql(text, session), session.useServerPrepStmts /\ ShouldPrepareOnServer(text), scroll, keys)
\* the forms of prepareStatement: with a type of result, with or without the wish for generated keys
PrepareStatement(form, text, session) ==
  InternalPrepareStatement(text, IF form \in {"typed", "held"} THEN "scroll" ELSE "forward",
                           form \in {"keys", "columns", "names"}, session)

-----------------------------------------------------------------------------
(* The pieces that texts are written of, and what they mean                           *)

\* [kind: plain, string, comment or escape, open, body, close]; the body of an escape is pieces
RECURSIVE Render(_)
Render(p) ==
  p.open \o (IF p.kind = "escape" THEN FlattenSeq([i \in 1..Len(p.body) |-> Render(p.body[i])]) ELSE p.body) \o p.close

VARIABLE syntax     \* [written: "" or what is written, session, pieces: of a query or of settings, call or statement]

Session(no, old) == [noBackslashEscapes |-> no, oldServer |-> old, database |-> <<"current">>, useServerPrepStmts |-> FALSE]
SyntaxInit ==
  \E no, old \in BOOLEAN : syntax = [written |-> "", session |-> Session(no, old), pieces |-> <<>>, call |-> <<>>]
AddPiece ==
  /\ syntax.written \in {"", "query"} /\ Len(syntax.pieces) < MaxPieces
  /\ \E p \in Pieces(syntax.session.noBackslashEscapes) :
       syntax' = [syntax EXCEPT !.written = "query", !.pieces = Append(@, p)]
AddSetting ==
  /\ syntax.written \in {"", "settings"} /\ Len(syntax.pieces) < MaxPieces
  /\ \E s \in SessionSettings : syntax' = [syntax EXCEPT !.written = "settings", !.pieces = Append(@, s)]
WriteCall ==
  /\ syntax.written = ""
  /\ \E c \in Calls : syntax' = [syntax EXCEPT !.written = "call", !.call = c]
\* a statement and the form of prepareStatement it is given to
WriteStatement ==
  /\ syntax.written = ""
  /\ \E q \in Prepared, form \in {"plain", "typed", "held", "keys", "columns", "names"}, asked \in BOOLEAN :
       syntax' = [syntax EXCEPT !.written = "statement", !.call = [of |-> q, form |-> form],
                                !.session.useServerPrepStmts = asked]
SyntaxNext == AddPiece \/ AddSetting \/ WriteCall \/ WriteStatement
SyntaxSpec == SyntaxInit /\ [][SyntaxNext]_syntax

-----------------------------------------------------------------------------
(* Properties                                                                     *)

Text(pieces) == FlattenSeq([i \in 1..Len(pieces) |-> Render(pieces[i])])

\* what the server should read: the body of an escape, with the types and units it knows
RECURSIVE Meaning(_)
Meaning(p) ==
  IF p.kind # "escape" THEN Render(p)
  ELSE p.means \o FlattenSeq([i \in 1..Len(p.body) |-> Meaning(p.body[i])])
\* a comment that touches the next one is read as the slashes of a line comment
Touch(p, q) == Last(Render(p)) \in {"/", "}"} /\ q.kind = "comment"

(* nativeSql writes what the escapes mean and leaves everything else as it is:    *)
(* strings and comments with braces, quotes and backslashes inside, in escapes    *)
(* and beside them.                                                               *)
EscapesAreResolved ==
  syntax.written = "query" /\ (\A i \in 1..(Len(syntax.pieces) - 1) : ~Touch(syntax.pieces[i], syntax.pieces[i + 1])) =>
    NativeSql(Text(syntax.pieces), syntax.session)
      = FlattenSeq([i \in 1..Len(syntax.pieces) |-> Meaning(syntax.pieces[i])])

(* The settings of the option sessionVariables reach the SET statement separated  *)
(* by commas, one by one and unchanged, whatever their strings contain.           *)
SettingsAreKept ==
  syntax.written = "settings" =>
    LET texts == [i \in 1..Len(syntax.pieces) |-> syntax.pieces[i].text \o <<syntax.pieces[i].separator>>]
        meant == SelectSeq([i \in 1..Len(syntax.pieces) |-> syntax.pieces[i].means], LAMBDA m : m # <<>>)
        joined == FoldLeft(LAMBDA s, m : IF s = <<>> THEN m ELSE s \o <<",">> \o m, <<>>, meant)
    IN  ParseSessionVariables(FlattenSeq(texts)) = joined

(* prepareCall finds database, procedure and arguments of a call in every form    *)
(* that its message offers, between comments and blanks. A procedure that is      *)
(* called with its database keeps the point in its name.                          *)
CallIsUnderstood ==
  syntax.written = "call" =>
    LET c == syntax.call
    IN  PrepareCall(c.text, syntax.session) =
          [refused |-> FALSE, isFunction |-> c.isFunction, arguments |-> c.arguments,
           database |-> IF c.database = <<>> THEN syntax.session.database ELSE c.database,
           procedure |-> (IF c.database = <<>> THEN <<>> ELSE <<".">>) \o c.procedure]

(* A statement is prepared on the server only if the option asks for it and it is  *)
(* one of those the server is given, whatever comments stand before its verb, and  *)
(* the text that is prepared still begins with the verb the decision was made by.  *)
(* The type of result and the wish for generated keys arrive whichever form of     *)
(* prepareStatement was called.                                                    *)
PreparedAsAsked ==
  syntax.written = "statement" =>
    \A q \in {syntax.call.of} :
      \A made \in {PrepareStatement(syntax.call.form, q.before \o <<q.verb>> \o q.rest, syntax.session)} :
        /\ ~made.refused
        /\ made.server <=> syntax.session.useServerPrepStmts /\ q.verb \in OnServer
        /\ made.server => SubSeq(made.query, 1, Len(q.before) + 1) = q.before \o <<q.verb>>
        /\ made.keys <=> syntax.call.form \in {"keys", "columns", "names"}
        /\ (made.scroll = "scroll") <=> syntax.call.form \in {"typed", "held"}

(* The driver's own readings of a text (nativeSql, parseSessionVariables, prepareCall,          *)
(* prepareStatement) find what was meant, whatever strings, comments and escapes are put        *)
(* together.                                                                                    *)
TextsAreUnderstood ==
  /\ EscapesAreResolved
  /\ SettingsAreKept
  /\ CallIsUnderstood
  /\ PreparedAsAsked
=============================================================================
