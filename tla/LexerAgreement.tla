--------------------------- MODULE LexerAgreement ---------------------------
(***************************************************************************)
(* The scanners of ClientPrepareResult and the server's lexer read the     *)
(* same query side by side, one character a step, for queries of any       *)
(* length.  From an opening in Openings the text and its parts are kept as *)
(* well, and the query is at most MaxText characters longer.               *)
(*                                                                         *)
(* odd names the first place where a scanner and the server are known to   *)
(* part; reading ends there:                                               *)
(*                                                                         *)
(*   slashes  // is a comment to parameterParts alone                      *)
(*   dashes   -- is a comment to the scanners without a blank after it     *)
(*   slash    the scanners close a comment with its own star: / * /        *)
(*   star     the slash that closed a comment opens one before a star      *)
(***************************************************************************)
EXTENDS QueryLexer

CONSTANTS Chars,        \* characters of a query that is not kept
          TextChars,    \* characters of one that is
          Openings,     \* how such a query begins
          MaxText       \* bound: characters after the opening

ASSUME LexerAssumption ==
  /\ MaxText \in Nat
  /\ Openings \subseteq Seq(Chars \cup Words \cup TextChars)

VARIABLES noBackslashEscapes,   \* of the session
          p, a, r,              \* parameterParts, canAggregateSemiColon, rewritableParts
          v,                    \* the server
          bare,                 \* the server has read a semicolon and no text since
          odd,
          text, parts, marks    \* the query that is kept, its parts and its parameters

lexVars == <<noBackslashEscapes, p, a, r, v, bare, odd, text, parts, marks>>

Kept == text # <<"not kept">>

(* Where the scanners leave the server, at character c.                    *)
Oddity(c) ==
  CASE c = "/" /\ p.state = "Normal" /\ p.lastChar = "/" -> "slashes"
    [] v.state = "Dashes" /\ c \notin {" ", "nl"} -> "dashes"
    [] c = "/" /\ v.state = "Comment" /\ v.last # "*" /\ r.lastChar = "*" -> "slash"
    [] c = "*" /\ r.state = "Normal" /\ r.lastChar = "/" /\ v.last # "/" -> "star"
    [] OTHER -> "none"

LexInit ==
  /\ noBackslashEscapes \in BOOLEAN
  /\ odd = "none" /\ bare = FALSE
  /\ \E opening \in Openings \cup {<<"not kept">>} :
       LET kept == opening # <<"not kept">>
           cs == IF kept THEN opening ELSE <<>>
           Read(Step(_, _, _)) ==
             FoldLeft(LAMBDA s, c : Step(s, c, noBackslashEscapes), NewScanner, cs)
           Split(x, c) == [parts |-> PartsStep(x.parts, x.scan, c),
                           scan |-> RewritableStep(x.scan, c, noBackslashEscapes)]
       IN  /\ kept => ~noBackslashEscapes       \* bound: kept texts have no backslash
           /\ p = Read(ParameterParts) /\ a = Read(CanAggregateStep) /\ r = Read(RewritableStep)
           /\ v = ServerReads(NewServerLexer, cs, noBackslashEscapes)
           /\ text = opening
           /\ parts = FoldLeft(Split, [parts |-> NewParts, scan |-> NewScanner], cs).parts
           /\ marks = 0

(* One character, for all of them.                                         *)
ReadChar(c) ==
  /\ odd = "none"
  /\ odd' = Oddity(c)
  /\ p' = ParameterParts(p, c, noBackslashEscapes)
  /\ a' = CanAggregateStep(a, c, noBackslashEscapes)
  /\ r' = RewritableStep(r, c, noBackslashEscapes)
  /\ v' = ServerStep(v, c, noBackslashEscapes)
  /\ bare' = CASE v.state \in {"Normal", "Dashes"} /\ c = ";" -> TRUE
               [] v.state = "Normal" /\ v'.state = "Normal" /\ c \notin {" ", "nl"} -> FALSE
               [] OTHER -> bare
  /\ UNCHANGED noBackslashEscapes

ReadUnkept == /\ ~Kept /\ \E c \in Chars : ReadChar(c)
              /\ UNCHANGED <<text, parts, marks>>

(* A word is not part of a longer one.                                     *)
MayFollow(last, c) ==
  /\ c \in Words => last \notin {"a"} \cup Words
  /\ last \in {"VALUES", "SELECT"} => c \in {" ", "("}

ReadKept ==
  /\ Kept
  /\ \E c \in TextChars :
       /\ MayFollow(r.lastChar, c)
       /\ ReadChar(c)
       /\ text' = Append(text, c)
       /\ parts' = PartsStep(parts, r, c)
       /\ marks' = IF ServerMarker(v, c) THEN marks + 1 ELSE marks
  /\ \E opening \in Openings : Len(text) < Len(opening) + MaxText

LexNext == ReadUnkept \/ ReadKept

-----------------------------------------------------------------------------
(* The three scanners are always in the same place of the query: a query   *)
(* is cut, aggregated and rewritten by the same reading of its quotes and  *)
(* comments (parameterParts, canAggregateSemiColon, rewritableParts).      *)
Place(s) == <<s.state, s.lastChar, s.singleQuotes>>
LexersAgree == odd = "none" => Place(p) = Place(a) /\ Place(a) = Place(r)

(* A '?' is a parameter to the scanners exactly when the server would take *)
(* it for one, and a parameter written there as a literal leaves the       *)
(* server where it was: no value ends its own quotes (parameterParts,      *)
(* rewritableParts, escapeData).                                           *)
LiteralChars == {"a", "quote", "dquote", "backslash", "nul"}
Literal(cs) ==
  <<"quote">> \o FoldLeft(LAMBDA t, c : t \o EscapeData(c, noBackslashEscapes), <<>>, cs)
    \o <<"quote">>
MarkersAreTheServers ==
  odd = "none" /\ v.state # "Dashes" =>
    /\ IsMarker(p, "?") = ServerMarker(v, "?")
    /\ IsMarker(r, "?") = ServerMarker(v, "?")
    /\ ServerMarker(v, "?") =>
         \A c \in LiteralChars :
           ServerReads(v, Literal(<<c>>), noBackslashEscapes).state = "Normal"

(* A query that another one may follow after a semicolon ends neither in a *)
(* comment that would swallow the other, nor after a semicolon of its own  *)
(* (canAggregateSemiColon; isQueryMultipleRewritable for the semicolon).   *)
AggregationIsSafe ==
  odd = "none" =>
    /\ CanAggregateSemiColon(a) => v.state # "EOLComment" /\ ~bare
    /\ r.multi => ~bare

(* The parts of rewritableParts make the query again, with a parameter for *)
(* every '?': in the order of rewriteQuery for a query with VALUES or one  *)
(* parameter, in the order of assemblePreparedQueryForExec without VALUES. *)
HasValues == parts.pre1 # <<>> /\ Last(parts.pre1) = "VALUES"
PartsMakeTheQuery ==
  Kept /\ (HasValues \/ marks <= 1) =>
    /\ ParamCount(parts) = marks
    /\ RewriteQuery(parts) = text
    /\ ~HasValues => AssemblePreparedQuery(parts) = text

(* What a rewritten batch repeats for each set of parameters is whole: its *)
(* parentheses match, it has all the parameters, and neither a SELECT nor  *)
(* LAST_INSERT_ID, whose meaning a longer list would change                *)
(* (isQueryMultiValuesRewritable, rewriteQuery).                           *)
Depth(cs) ==
  LET Step(x, c) == [scan |-> RewritableStep(x.scan, c, noBackslashEscapes),
                     depth |-> CASE x.scan.state = "Normal" /\ c = "(" -> x.depth + 1
                                 [] x.scan.state = "Normal" /\ c = ")" -> x.depth - 1
                                 [] OTHER -> x.depth,
                     low |-> x.low \/ x.depth < 0]
  IN  FoldLeft(Step, [scan |-> NewScanner, depth |-> 0, low |-> FALSE], cs)
Whole(cs) == LET d == Depth(cs) IN  d.depth = 0 /\ ~d.low /\ d.scan.state = "Normal"
RepeatedValuesAreWhole ==
  Kept /\ HasValues /\ marks > 0 /\ Whole(text) /\ IsQueryMultiValuesRewritable(parts) =>
    LET values == RepeatedValues(parts)
    IN  /\ Whole(values)
        /\ ParamCount(parts) = marks
        /\ \A i \in DOMAIN values : values[i] \notin {"SELECT", "LAST_INSERT_ID("}

(* The three scanners of a query cut it where the server would: at the     *)
(* same markers, into parts that make the query again, repeating whole     *)
(* values and joining only what is closed.                                 *)
QueryIsCutRight ==
  /\ LexersAgree
  /\ MarkersAreTheServers
  /\ AggregationIsSafe
  /\ PartsMakeTheQuery
  /\ RepeatedValuesAreWhole
=============================================================================
