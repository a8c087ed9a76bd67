------------------------------ MODULE MCBatch ------------------------------
(* The readers of a query and the execution of a batch, side by side: the  *)
(* scene says which one moves, the other stands where it began.            *)
EXTENDS LexerAgreement, BatchExecution

MCChars == {"a", "u", " ", "nl", "quote", "dquote", "backtick", "backslash", "*", "/", "#", "-",
            ";", "?"}
MCTextChars == {"a", " ", "(", ")", "?", ";", "SELECT", "quote"}
MCOpenings == {<<"a", " ", "a">>, <<"I", " ", "VALUES">>}

Query(values, multi, select, unbulkable, holders) ==
  [values |-> values, multi |-> multi, select |-> select, unbulkable |-> unbulkable,
   holders |-> holders]

\* both ends of the integers, NULL, a stream longer than its limit, mixed in one batch, and the others
MCQueries ==
  {Query(TRUE, TRUE, FALSE, FALSE, {SetWide("setLong", -1), SetWide("setUInt64", 2 ^ LongBits - 1)}),
   Query(TRUE, FALSE, FALSE, FALSE, {SetText("setBytes", 5)}),
   Query(FALSE, TRUE, FALSE, FALSE, {SetNull, SetBlob(7, 3)}),
   Query(FALSE, FALSE, FALSE, TRUE, {SetBlob(Null, 1)})}
    \cup {Query(FALSE, FALSE, TRUE, FALSE, {h}) : h \in {SetWide("setInt", -4), SetNarrow("setBoolean", TRUE), SetDateTime(Null)}}
    \cup {Query(FALSE, FALSE, FALSE, FALSE, {h}) : h \in {SetWide("setFloat", 25), SetNarrow("setByte", -1), SetBlob(7, 8)}}
    \cup {Query(FALSE, TRUE, FALSE, TRUE, {h}) : h \in {SetNarrow("setShort", -4), SetWide("setDouble", 25)}}

\* options that make no difference to the side are left off
MCConfs == {c \in ConfType : /\ c.bulkCapable => c.useBulkStmts
                             /\ c.useBulkStmts \/ c.keys => c.side # "text"
                             /\ c.rewriteBatchedStatements => c.side # "server"
                             /\ c.useBatchMultiSend \/ c.keys => ~c.continueBatchOnError
                             /\ c.keys => ~c.useBatchMultiSend
                             /\ c.useBatchMultiSend /\ c.rewriteBatchedStatements => c.side = "text"}

\* which of the two moves
VARIABLE scene
StillConf == CHOOSE c \in MCConfs : TRUE
StillQuery == CHOOSE q \in MCQueries : TRUE
BatchStill == BatchInit /\ conf = StillConf /\ query = StillQuery
LexerStill == LexInit /\ ~noBackslashEscapes /\ ~Kept
\* a text statement has no prepared query: one stands for all
Init == \/ scene = "lexer" /\ LexInit /\ BatchStill
        \/ scene = "batch" /\ LexerStill /\ BatchInit /\ (conf.side = "text" => query = StillQuery)
Next == /\ UNCHANGED scene
        /\ \/ scene = "lexer" /\ LexNext /\ UNCHANGED batchVars
           \/ scene = "batch" /\ BatchNext /\ UNCHANGED lexVars
Spec == Init /\ [][Next]_<<scene, lexVars, batchVars>>
=============================================================================
