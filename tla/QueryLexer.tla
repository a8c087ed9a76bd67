----------------------------- MODULE QueryLexer -----------------------------
(***************************************************************************)
(* ClientPrepareResult: the three scanners that read a query before it is  *)
(* sent, as operators that read one character.  Beside them the server's   *)
(* own lexer, which is external and the reference.                         *)
(*                                                                         *)
(* A character stands for its class: "a" a letter, "u" a byte above 127    *)
(* (negative as int8_t), " " anything up to 40 that means nothing, "nl" a  *)
(* line feed; "quote", "dquote", "backtick" and "backslash" are named.     *)
(* Words that rewritableParts looks for are read as one:                   *)
(* "VALUES" followed by a blank or a parenthesis, "SELECT" between blanks, *)
(* "LAST_INSERT_ID(", and "I" for a first word that begins with I.         *)
(***************************************************************************)
EXTENDS Integers, Sequences, SequencesExt

Words == {"I", "VALUES", "SELECT", "LAST_INSERT_ID("}

(* (int8_t)car >= 40, of the characters no case of the switch names.       *)
IsText(c) == c \in {"a", "(", ")"} \cup Words

-----------------------------------------------------------------------------
(***************************************************************************)
(* A scanner: LexState, lastChar, singleQuotes; endingSemicolon or         *)
(* semicolon; multipleQueriesPrepare.                                      *)
(***************************************************************************)
NewScanner == [state |-> "Normal", lastChar |-> "", singleQuotes |-> FALSE,
               semicolon |-> FALSE, multi |-> TRUE]

(* Inside quotes, after a backslash: anything but the quote is skipped.    *)
Skipped(s, c) ==
  s.state = "Escape" /\ c # (IF s.singleQuotes THEN "quote" ELSE "dquote")

(* The cases of the two quotes.                                            *)
AtQuote(s, c) ==
  CASE s.state = "Normal" -> [s EXCEPT !.state = "SqlString", !.singleQuotes = c = "quote"]
    [] s.state = "SqlString" /\ s.singleQuotes = (c = "quote") -> [s EXCEPT !.state = "Normal"]
    [] s.state = "Escape" -> [s EXCEPT !.state = "SqlString"]
    [] OTHER -> s

(* The cases of the backtick and the backslash.                            *)
AtBacktick(s) ==
  CASE s.state = "Backtick" -> [s EXCEPT !.state = "Normal"]
    [] s.state = "Normal" -> [s EXCEPT !.state = "Backtick"]
    [] OTHER -> s
AtBackslash(s, noBackslashEscapes) ==
  IF ~noBackslashEscapes /\ s.state = "SqlString" THEN [s EXCEPT !.state = "Escape"] ELSE s

(* parameterParts: which '?' are parameters, and whether the query may be  *)
(* followed by another.                                                    *)
ParameterParts(s, c, noBackslashEscapes) ==
  LET normal == s.state = "Normal"
      next ==
        CASE c = "*" /\ normal /\ s.lastChar = "/" -> [s EXCEPT !.state = "SlashStarComment"]
          [] c = "/" /\ s.state = "SlashStarComment" /\ s.lastChar = "*" ->
               [s EXCEPT !.state = "Normal"]
          [] c = "/" /\ normal /\ s.lastChar = "/" -> [s EXCEPT !.state = "EOLComment"]
          [] c = "#" /\ normal -> [s EXCEPT !.state = "EOLComment"]
          [] c = "-" /\ normal /\ s.lastChar = "-" ->
               [s EXCEPT !.state = "EOLComment", !.multi = FALSE]
          [] c = "nl" /\ s.state = "EOLComment" ->
               [s EXCEPT !.state = "Normal", !.multi = TRUE]
          [] c \in {"quote", "dquote"} -> AtQuote(s, c)
          [] c = "backslash" -> AtBackslash(s, noBackslashEscapes)
          [] c = ";" /\ normal -> [s EXCEPT !.semicolon = TRUE, !.multi = FALSE]
          [] c = "backtick" -> AtBacktick(s)
          [] IsText(c) /\ normal /\ s.semicolon ->
               [s EXCEPT !.semicolon = FALSE, !.multi = TRUE]
          [] OTHER -> s
      read == IF Skipped(s, c) THEN [s EXCEPT !.state = "SqlString"] ELSE next
  IN  [read EXCEPT !.lastChar = c]

IsMarker(s, c) == c = "?" /\ s.state = "Normal"

(* canAggregateSemiColon: the character, and the answer at the end.        *)
CanAggregateStep(s, c, noBackslashEscapes) ==
  LET normal == s.state = "Normal"
      next ==
        CASE c = "*" /\ normal /\ s.lastChar = "/" -> [s EXCEPT !.state = "SlashStarComment"]
          [] c = "/" /\ s.state = "SlashStarComment" /\ s.lastChar = "*" ->
               [s EXCEPT !.state = "Normal"]
          [] c = "#" /\ normal -> [s EXCEPT !.state = "EOLComment"]
          [] c = "-" /\ normal /\ s.lastChar = "-" -> [s EXCEPT !.state = "EOLComment"]
          [] c = ";" /\ normal -> [s EXCEPT !.semicolon = TRUE]
          [] c = "nl" /\ s.state = "EOLComment" -> [s EXCEPT !.state = "Normal"]
          [] c \in {"quote", "dquote"} -> AtQuote(s, c)
          [] c = "backslash" -> AtBackslash(s, noBackslashEscapes)
          [] c = "backtick" -> AtBacktick(s)
          [] IsText(c) /\ normal -> [s EXCEPT !.semicolon = FALSE]
          [] OTHER -> s
      read == IF Skipped(s, c) THEN [s EXCEPT !.state = "SqlString"] ELSE next
  IN  [read EXCEPT !.lastChar = c]

CanAggregateSemiColon(s) == s.state # "EOLComment" /\ ~s.semicolon

-----------------------------------------------------------------------------
(***************************************************************************)
(* rewritableParts, the lexical half: comments, quotes, semicolons.        *)
(***************************************************************************)
RewritableStep(s, c, noBackslashEscapes) ==
  LET normal == s.state = "Normal"
      next ==
        CASE c = "*" /\ normal /\ s.lastChar = "/" -> [s EXCEPT !.state = "SlashStarComment"]
          [] c = "/" /\ s.state = "SlashStarComment" /\ s.lastChar = "*" ->
               [s EXCEPT !.state = "Normal"]
          [] c = "#" /\ normal -> [s EXCEPT !.state = "EOLComment"]
          [] c = "-" /\ normal /\ s.lastChar = "-" ->
               [s EXCEPT !.state = "EOLComment", !.multi = FALSE]
          [] c = "nl" /\ s.state = "EOLComment" -> [s EXCEPT !.state = "Normal"]
          [] c = ";" /\ normal -> [s EXCEPT !.semicolon = TRUE, !.multi = FALSE]
          [] c \in {"quote", "dquote"} -> AtQuote(s, c)
          [] c = "backslash" -> AtBackslash(s, noBackslashEscapes)
          [] c = "backtick" -> AtBacktick(s)
          [] c \in {"a"} \cup Words /\ normal /\ s.semicolon -> [s EXCEPT !.multi = TRUE]
          [] OTHER -> s
      read == IF Skipped(s, c) THEN [s EXCEPT !.state = "SqlString"] ELSE next
  IN  [read EXCEPT !.lastChar = c]

(***************************************************************************)
(* The other half: the parts.  A part is empty where the code's is; sb is  *)
(* the text since the last part.                                           *)
(***************************************************************************)
NewParts == [sb |-> <<>>, pre1 |-> <<>>, pre2 |-> <<>>, post |-> <<>>, list |-> <<>>,
             depth |-> 0, first |-> TRUE, isInsert |-> FALSE, hasParam |-> FALSE,
             rewritable |-> TRUE]

(* The case '?': the text so far is the first part that is still empty, or *)
(* one more of the list.                                                   *)
AtMarker(p) ==
  LET a == IF p.pre1 = <<>> THEN [p EXCEPT !.pre1 = p.sb, !.sb = <<>>] ELSE p
  IN  IF p.pre2 = <<>> THEN [a EXCEPT !.pre2 = a.sb, !.sb = <<>>, !.hasParam = TRUE]
      ELSE [p EXCEPT !.list = Append(@, p.post \o p.sb), !.sb = <<>>, !.post = <<>>,
                     !.rewritable = @ /\ p.post = <<>>, !.hasParam = TRUE]

(* Mutant: the parenthesis that ends the values is taken at any depth.     *)
AtClosingAnyDepth(p) ==
  IF p.pre2 # <<>> /\ p.post = <<>>
  THEN [p EXCEPT !.post = Append(p.sb, ")"), !.sb = <<>>, !.depth = @ - 1]
  ELSE [p EXCEPT !.sb = Append(@, ")"), !.depth = @ - 1]

(* The case ')': the end of the values.                                    *)
AtClosing(p) ==
  IF p.depth = 1 /\ p.pre2 # <<>> /\ p.post = <<>>
  THEN [p EXCEPT !.post = Append(p.sb, ")"), !.sb = <<>>, !.depth = 0]
  ELSE [p EXCEPT !.sb = Append(@, ")"), !.depth = @ - 1]

AheadOfValues == {"", " ", "nl", ")", "(", "quote", "dquote", "#"}

(* One character, s being the scanner before it.                           *)
PartsStep(p, s, c) ==
  LET kept == [p EXCEPT !.sb = Append(@, c)]
      text == [kept EXCEPT !.isInsert = @ \/ (p.first /\ c = "I"), !.first = FALSE,
                           !.rewritable = @ /\ ~s.semicolon]
  IN  CASE s.state # "Normal" -> kept
        [] s.state = "Normal" /\ c = "?" -> AtMarker(p)
        [] s.state = "Normal" /\ c = ")" -> AtClosing(p)
        [] s.state = "Normal" /\ c = "(" -> [kept EXCEPT !.depth = @ + 1]
        [] s.state = "Normal" /\ c = "VALUES" /\ p.pre1 = <<>> /\ s.lastChar \in AheadOfValues ->
             [p EXCEPT !.pre1 = Append(p.sb, c), !.sb = <<>>]
        [] s.state = "Normal" /\ (c = "LAST_INSERT_ID(" \/ (c = "SELECT" /\ p.post = <<>>)) ->
             [text EXCEPT !.rewritable = FALSE]
        [] s.state = "Normal" /\ c \in {"a", "I"} -> text
        [] OTHER -> kept

(* The end of rewritableParts: the list the constructor gets.              *)
QueryParts(p) ==
  IF p.hasParam THEN <<p.pre2, p.pre1>> \o p.list \o <<p.post, p.sb>>
  ELSE IF p.pre1 = <<>> THEN <<<<>>, p.sb, <<>>>> ELSE <<p.sb, p.pre1, <<>>>>

IsQueryMultiValuesRewritable(p) == p.rewritable /\ p.isInsert
ParamCount(p) == Len(QueryParts(p)) - 3

(***************************************************************************)
(* Putting a query together again with its parameters: the order of        *)
(* rewriteQuery, and the one of assemblePreparedQueryForExec.              *)
(***************************************************************************)
WithMarkers(parts, n) ==
  LET upTo[i \in 0 .. n] == IF i = 0 THEN <<>> ELSE upTo[i - 1] \o <<"?">> \o parts[i + 2]
  IN  upTo[n] \o parts[n + 3]
RewriteQuery(p) ==
  LET parts == QueryParts(p) IN  parts[2] \o parts[1] \o WithMarkers(parts, ParamCount(p))
AssemblePreparedQuery(p) ==
  LET parts == QueryParts(p) IN  parts[1] \o parts[2] \o WithMarkers(parts, ParamCount(p))

(* What rewriteQuery repeats for every further set of parameters.          *)
RepeatedValues(p) ==
  LET parts == QueryParts(p)
      n == ParamCount(p)
      upTo[i \in 0 .. n] == IF i = 0 THEN parts[1] ELSE upTo[i - 1] \o <<"?">> \o parts[i + 2]
  IN  upTo[n]

-----------------------------------------------------------------------------
(* escapeData: what a character of a parameter becomes in the query.       *)
EscapeData(c, noBackslashEscapes) ==
  IF noBackslashEscapes THEN IF c = "quote" THEN <<c, c>> ELSE <<c>>
  ELSE IF c \in {"quote", "backslash", "dquote", "nul"} THEN <<"backslash", c>> ELSE <<c>>

-----------------------------------------------------------------------------
(***************************************************************************)
(* The server's lexer: two dashes begin a comment only before a blank, so  *)
(* they are the state "Dashes" until the next character.                   *)
(***************************************************************************)
NewServerLexer == [state |-> "Normal", quote |-> "", last |-> ""]

ServerStep(v, c, noBackslashEscapes) ==
  LET plain == v.state \in {"Normal", "Dashes"}
      to(x) == [v EXCEPT !.state = x, !.last = c]
      fresh(x) == [v EXCEPT !.state = x, !.last = ""]
  IN  CASE v.state = "Dashes" /\ c = "nl" -> fresh("Normal")
        [] v.state = "Dashes" /\ c = " " -> fresh("EOLComment")
        [] plain /\ c \in {"quote", "dquote", "backtick"} -> [state |-> "Quoted", quote |-> c, last |-> ""]
        [] plain /\ c = "#" -> fresh("EOLComment")
        [] plain /\ c = "-" /\ v.last = "-" -> to("Dashes")
        [] plain /\ c = "*" /\ v.last = "/" -> fresh("Comment")
        [] plain /\ c \notin {"quote", "dquote", "backtick", "#"} /\ ~(c = "-" /\ v.last = "-")
             /\ ~(c = "*" /\ v.last = "/") /\ ~(v.state = "Dashes" /\ c \in {"nl", " "}) -> to("Normal")
        [] v.state = "EOLComment" -> fresh(IF c = "nl" THEN "Normal" ELSE "EOLComment")
        [] v.state = "Comment" ->
             IF c = "/" /\ v.last = "*" THEN fresh("Normal") ELSE to("Comment")
        [] v.state = "Quoted" ->
             CASE c = v.quote -> fresh("Normal")
               [] c = "backslash" /\ v.quote # "backtick" /\ ~noBackslashEscapes -> fresh("Escaped")
               [] OTHER -> v
        [] v.state = "Escaped" -> fresh("Quoted")

ServerMarker(v, c) == c = "?" /\ v.state \in {"Normal", "Dashes"}

ServerReads(v, cs, noBackslashEscapes) ==
  FoldLeft(LAMBDA w, c : ServerStep(w, c, noBackslashEscapes), v, cs)
=============================================================================
