------------------------------ MODULE Quoting ------------------------------
(* How names are written into statements: replace of util/String.cpp,             *)
(* quoteIdentifier of MariaDbConnection.cpp and enquoteIdentifier of               *)
(* MariaDbStatement.cpp. A text is a sequence of characters.                       *)
EXTENDS Integers, Sequences, SequencesExt

BackQuote == "bq"
Quote == "'"
Backslash == "\\"
NoName == <<>>

Twice(c) == <<c, c>>
At(text, sub) == {i \in 1..(Len(text) - Len(sub) + 1) : SubSeq(text, i, i + Len(sub) - 1) = sub}

QuoteIdentifierOnce(name) == <<BackQuote>> \o name \o <<BackQuote>>

(* The search goes on at prev, which counts what was put in and not where.        *)
RECURSIVE ReplaceFrom(_, _, _, _)
ReplaceFrom(text, prev, sub, subst) ==
  LET at == {i \in At(text, sub) : i >= prev}
      pos == CHOOSE i \in at : \A j \in at : i <= j
  IN  IF at = {} THEN text
      ELSE ReplaceFrom(SubSeq(text, 1, pos - 1) \o subst \o SubSeq(text, pos + Len(sub), Len(text)),
                       prev + Len(subst), sub, subst)
Replace(text, sub, subst) == ReplaceFrom(text, 1, sub, subst)

QuoteIdentifier(name) == <<BackQuote>> \o Replace(name, <<BackQuote>>, Twice(BackQuote)) \o <<BackQuote>>

IsQuoted(text) == Len(text) >= 2 /\ Head(text) = BackQuote /\ Last(text) = BackQuote

\* the comment asks for an identifier of plain characters, the code for a quoted one
IsSimpleIdentifier(text) ==
  text # <<>> /\ Head(text) = BackQuote /\ Last(text) = BackQuote
    /\ \A i \in 2..(Len(text) - 1) : text[i] \notin {BackQuote, Quote, Backslash, "."}
EnquoteIdentifier(text, alwaysQuote) ==
  IF IsSimpleIdentifier(text) THEN IF alwaysQuote THEN QuoteIdentifierOnce(text) ELSE text
  ELSE QuoteIdentifier(IF IsQuoted(text) THEN SubSeq(text, 2, Len(text) - 1) ELSE text)

-----------------------------------------------------------------------------
(* What the server reads                                                          *)

Doubled(text, c) == FlattenSeq([i \in 1..Len(text) |-> IF text[i] = c THEN Twice(c) ELSE <<text[i]>>])
ServerQuotes(name) == <<BackQuote>> \o Doubled(name, BackQuote) \o <<BackQuote>>
QuotedRight(name) == QuoteIdentifier(name) = ServerQuotes(name)
=============================================================================
