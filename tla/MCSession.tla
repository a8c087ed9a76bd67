------------------------------ MODULE MCSession ------------------------------
(* How a connection is configured, what becomes of its session, the prepared      *)
(* statements it caches, the texts it takes apart, the errors it passes on and how *)
(* it is opened, side by side: the scene says which one moves, the others stand    *)
(* where they began.                                                              *)
EXTENDS SessionState, ConnectionUrl, PreparedStatementCache, CallSyntax,
        ErrorPaths, Handshake, ConnectionCalls, StatementSettings,
        GeneratedKeys

Host(form, name, port) == [form |-> form, host |-> name, port |-> port]
Url(scheme, mode, hosts, database, parameters) ==
  [scheme |-> scheme, mode |-> mode, hosts |-> hosts, database |-> database, parameters |-> parameters]
OneHost == <<Host("name", "h1", 3306)>>
TwoHosts == <<Host("name", "h1", 3307), Host("name", "h2", 3306)>>
AllUrls ==
  {Url("jdbc", "NONE", OneHost, "", <<>>),
   Url("jdbc", "NONE", OneHost, "db", <<<<"user", Word("ann")>>, <<"pool", Word("false")>>>>),
   Url("jdbc", "NONE", TwoHosts, "", <<<<"useTls", Empty>>, <<"maxPoolSize", Num(3)>>>>),
   Url("jdbc", "NONE", TwoHosts, "db", <<<<"localSocket", Word("/path")>>, <<"localSocket", Word("other")>>>>),
   Url("jdbc", "NONE", OneHost, "", <<<<"localSocket", Word("/path")>>>>),
   Url("jdbc", "SEQUENTIAL", TwoHosts, "db", <<<<"socketTimeout", Num(0)>>>>),
   Url("jdbc", "REPLICATION", TwoHosts, "db", <<>>),
   Url("jdbc", "NONE", <<Host("ipv6", "::1", 3307)>>, "db", <<>>),
   Url("jdbc", "NONE", <<Host("address", "h1", 3306)>>, "db", <<>>),
   Url("tcp", "NONE", TwoHosts, "db", <<<<"log", <<"mixed", 7>>>>>>),
   Url("tcp", "NONE", OneHost, "", <<>>),
   Url("unix", "NONE", OneHost, "db", <<>>)}

\* every name with every kind of text, and names that meet
MCTexts == {Empty, Null, Word("word"), Word("true"), Word("false"), Num(0), Num(1), Num(-1), Num(60), Num(59),
            <<"mixed", 60>>, <<"long", 0>>}
EveryName == {k :> t : k \in Names, t \in MCTexts}
Meeting ==
  {"minPoolSize" :> Num(n) @@ "maxPoolSize" :> Num(m) : n \in {0, 2, 9}, m \in {1, 9}}
    \cup {"rewriteBatchedStatements" :> Num(1) @@ "useServerPrepStmts" :> Num(1),
          "pipe" :> Word("p") @@ "useBatchMultiSend" :> Num(1), "user" :> Word("a") @@ "userName" :> Word("b"),
          "useSSL" :> Num(1) @@ "useSsl" :> Num(0), "logname" :> Word("f"), "schema" :> Word("s"),
          "useCharset" :> Word("utf8")}
MCPropertySets == {<<>>, "maxPoolSize" :> Num(2), "pool" :> Word("word"), "user" :> Word("carl")}
MCUrls == {u \in AllUrls : u.scheme = "jdbc" /\ u.mode # "SEQUENTIAL" /\ (u.database = "" \/ Len(u.hosts) = 2)}

Start(u, p, n) == [url |-> u, properties |-> p, calls |-> n]
ShortUrl == Url("jdbc", "NONE", OneHost, "", <<>>)
MCStarts ==
  {Start(ShortUrl, <<>>, 0)} \cup {Start(ShortUrl, p, 1) : p \in EveryName \cup Meeting}
    \cup {Start(u, p, 1) : u \in AllUrls, p \in Meeting}
    \cup {Start(u, <<>>, 3) : u \in MCUrls} \cup {Start(ShortUrl, "maxPoolSize" :> Num(9), 3)}
MCUserNames == {Word("bob"), Empty}
MCDials ==
  {[by |-> b, host |-> h, schema |-> s] : b \in {"hostName", "pipe"}, h \in {<<Word("h1")>>}, s \in {"", "db"}}
    \cup {[by |-> "hostName", host |-> <<Word("h1"), Sign(":"), Num(3307)>>, schema |-> s] : s \in {"", "db"}}
    \cup {[by |-> "socket", host |-> <<Sign("/"), Word("path")>>, schema |-> ""]}

Plain(text) == [kind |-> "plain", open |-> <<>>, body |-> text, close |-> <<>>]
Quoted(quote, body) == [kind |-> "string", open |-> <<quote>>, body |-> body, close |-> <<quote>>]
Comment(body) == [kind |-> "comment", open |-> <<"/", "*">>, body |-> body, close |-> <<"*", "/">>]
LineComment(mark, body) == [kind |-> "comment", open |-> <<mark, mark>>, body |-> body, close |-> <<"nl">>]
Escape(open, means, body) == [kind |-> "escape", open |-> <<"{">> \o open, body |-> body, close |-> <<"}">>, means |-> means]
\* an escape whose own text holds a type or a unit of the standard
Function(text, means) == Escape(<<"fn", " ">> \o text, means, <<>>)
Brace == Quoted("'", <<"}">>)
Inner == Escape(<<"fn", " ">>, <<>>, <<Plain(<<"f", "(">>), Brace, Comment(<<"'", "}">>), Plain(<<")">>)>>)
MCPieces(noBackslashEscapes) ==
  {Plain(<<"a">>), Brace, Quoted("dq", <<"'", "{">>), Quoted("bq", <<"/", "*">>), Comment(<<"{", "dq">>),
   LineComment("-", <<"}", "'">>), LineComment("/", <<"{">>), Inner,
   Quoted("'", IF noBackslashEscapes THEN <<"\\">> ELSE <<"\\", "'", "{">>),
   Escape(<<"d", " ">>, <<>>, <<Brace>>), Escape(<<"ts">>, <<>>, <<Brace>>), Escape(<<" ", "nl", "t", " ">>, <<>>, <<Brace>>),
   Escape(<<"oj", " ">>, <<>>, <<Plain(<<"a">>), Inner, Escape(<<"d">>, <<>>, <<Brace>>)>>),
   Escape(<<"escape", " ">>, <<"escape", " ">>, <<Brace>>), Escape(<<"?", "=", "call", " ">>, <<"call", " ">>, <<Inner>>),
   Function(<<"convert", "(", "a", ",", " ", "SQL_", "BIGINT", ")">>, <<"convert", "(", "a", ",", " ", "SIGNED INTEGER", ")">>),
   Function(<<"timestampadd", "(", "SQL_TSI_", "HOUR", ")">>, <<"timestampadd", "(", "HOUR", ")">>)}

Setting(text, separator, means) == [text |-> text, separator |-> separator, means |-> means]
MCSettings ==
  {Setting(<<" ", "k", " ", "=", "v">>, ",", <<"k", "=", "v">>), Setting(<<"k">>, ";", <<"k">>), Setting(<<" ">>, ";", <<>>),
   Setting(<<"k", "=", "'", ",", "dq", ";", "'">>, ";", <<"k", "=", "'", ",", "dq", ";", "'">>),
   Setting(<<"k", "=", "dq", "\\", "dq", ",", "'", "dq">>, ",", <<"k", "=", "dq", "\\", "dq", ",", "'", "dq">>)}

MCCalls ==
  LET Call(before, open, isFunction, database, named, arguments, after) ==
        [text |-> before \o open \o <<"call", " ">> \o named \o arguments \o after, isFunction |-> isFunction,
         database |-> database, procedure |-> <<"p">>,
         arguments |-> IF arguments = <<>> THEN <<>> ELSE SubSeq(arguments, 2, Len(arguments) - 1)]
  IN  {Call(b, o, o # <<>> /\ Has(o, "?"), IF Has(n, ".") THEN <<"d">> ELSE <<>>, n, a, IF o = <<>> THEN <<>> ELSE <<"}">>) :
         b \in {<<>>, <<" ">>, <<"/", "*", "{", "*", "/">>, <<"-", "-", "call", "nl">>, <<"#", "call", "nl", " ">>},
         o \in {<<>>, <<"{">>, <<"{", " ">>, <<"{", "?", "=">>},
         n \in {<<"p">>, <<"d", ".", "p">>}, a \in {<<>>, <<"(", ")">>, <<"(", "?", ",", "?", ")">>}}

MCPrepared ==
  {[before |-> b, verb |-> v, rest |-> r] :
     b \in {<<>>, <<" ">>, <<"/", "*", "select", "{", "*", "/">>, <<"-", "-", "update", "nl", " ">>, <<"#", "drop", "nl">>},
     v \in {"select", "do", "drop", "set", "with", "("}, r \in {<<" ", "a">>, <<" ", "{", "d", " ", "'", "}", "'", "}">>}}

MCServerErrors ==
  {<<Interrupted, 1317>>, <<Interrupted, ConnectionKilled>>, <<<<"HY", "000">>, ServerLost>>, <<<<"HY", "000">>, 2006>>,
   <<SyntaxState, ParseError>>, <<SyntaxState, LocalInfileDisabled>>, <<<<"23", "000">>, 1062>>, <<<<"08", "S01">>, 1184>>,
   <<Unsupported, 1235>>, <<<<"XA", "E04">>, 1397>>}

\* texts of connectionAttributes, versions on both sides of every limit, and sets of options
BaseOptions ==
  [tls |-> FALSE, key |-> FALSE, keyPassword |-> FALSE, ca |-> FALSE, verify |-> TRUE, suites |-> "", compression |-> FALSE,
   interactive |-> FALSE, affectedRows |-> FALSE, infile |-> TRUE, multiQueries |-> FALSE, autocommit |-> TRUE,
   sessionVariables |-> FALSE, createDatabase |-> FALSE, database |-> "", socketTimeout |-> 30000]
Server(numbers, suffix, maria) ==
  LET Digits(n) == IF n < 10 THEN <<n>> ELSE <<n \div 10, n % 10>>
  IN  [text |-> Digits(numbers[1]) \o <<Separator>> \o Digits(numbers[2]) \o <<Separator>> \o Digits(numbers[3]) \o suffix,
       numbers |-> numbers, maria |-> maria, capabilities |-> {"COMPRESS", "DEPRECATE_EOF"}, variables |-> {"select", "show"}]
BaseServer == Server(<<10, 6, 12>>, <<Separator, 1>>, TRUE)
Opening(options, from, attributes) == [options |-> options, server |-> from, attributes |-> attributes]
BaseOpening == Opening(BaseOptions, BaseServer, <<>>)
MCHandshakeStarts ==
  {BaseOpening}
    \cup {Opening(BaseOptions, BaseServer, text) : text \in UNION {[1..n -> {"k", "v", ":", ",", " "}] : n \in 1..3}}
    \cup {Opening(BaseOptions, BaseServer, <<"k">> \o a \o b) :
            a \in [1..3 -> {":", ",", "v"}], b \in [1..3 -> {":", ",", "k"}]}
    \cup {Opening(BaseOptions, Server(<<10, n, m>>, t, TRUE), <<>>) :
            n \in {0, 1, 11}, m \in {1, 2, 10}, t \in {<<>>, <<Separator>>, <<Separator, 7, Separator>>}}
    \cup {Opening(BaseOptions, Server(v, t, FALSE), <<>>) :
            v \in {<<5, 5, 62>>, <<5, 7, 19>>, <<5, 7, 20>>, <<8, 0, 2>>, <<8, 0, 3>>, <<8, 4, 0>>}, t \in {<<>>, <<Separator, 4>>}}
    \cup {Opening([BaseOptions EXCEPT !.compression = c, !.autocommit = a, !.sessionVariables = v, !.socketTimeout = n,
                                      !.createDatabase = d, !.database = b],
                   [BaseServer EXCEPT !.variables = q], <<>>) :
            c \in BOOLEAN, a \in BOOLEAN, v \in BOOLEAN, n \in {0, 1, 30000}, d \in BOOLEAN, b \in {"", "db", "missing"},
            q \in {{"select", "show"}, {"show"}}}
    \cup {Opening([BaseOptions EXCEPT !.tls = t, !.key = k, !.keyPassword = k, !.suites = u], BaseServer, <<>>) :
            t \in BOOLEAN, k \in BOOLEAN, u \in {"", "TLSv1.2", "TLSv1.1,TLSv1.3"}}
MCTimeouts == {0, 1, 1001}

MCInfoValues == {<<>>, <<"'", "\\">>, <<"\\", "x", "dq">>}

\* with and without the clause, ON and blanks before it, another o near the end and far from it
MCInsertTexts ==
  LET Clause == <<"DUPLICATE", " ", "KEY", " ", " ", "update", " ", "x">>
      Worded(words, clause) == [words |-> words, clause |-> clause]
  IN  {Worded(<<"x">>, FALSE), Worded(<<"x", " ", "from">>, FALSE), Worded(<<"from", " ", "x", "x">>, FALSE),
       Worded(<<"on", " ", "KEY", " ", "x", "x">>, FALSE), Worded(<<"ON", " ">> \o Clause, TRUE),
       Worded(<<"x", " ", "on", " ", "x", " ", "ON", " ", " ">> \o Clause, TRUE),
       Worded(<<"x", "on", " ", "duplicate", " ", "key", " ", "update", " ", "x">>, TRUE)}

\* which of them moves
CONSTANT Scenes
VARIABLE scene
SessionStill == useComReset
CacheStill == closes
UrlStill == UrlFrom(Start(ShortUrl, <<>>, 0))
ErrorsStill == errors.kind = "text" /\ ~errors.options.dump /\ ~errors.options.allowLocalInfile
HandshakeStill == HandshakeFrom(BaseOpening)
MCInit ==
  /\ scene \in Scenes
  /\ Init /\ (scene = "session" \/ SessionStill)
  /\ IF scene = "url" THEN UrlInit ELSE UrlStill
  /\ CacheInit /\ (scene = "statements" \/ CacheStill)
  /\ SyntaxInit /\ (scene = "syntax" \/ syntax.session = Session(FALSE, FALSE))
  /\ ErrorsInit /\ (scene = "errors" \/ ErrorsStill)
  /\ IF scene = "handshake" THEN HandshakeInit ELSE HandshakeStill
  /\ CallsInit /\ (scene = "info" \/ ~dialog.server.noBackslashEscapes)
  /\ SettingsInit /\ (scene = "settings" \/ \A h \in Handles : board.of[h].scroll = "forward")
  /\ InsertsInit /\ (scene = "keys" \/ ~inserts.tracked)
MCNext ==
  /\ UNCHANGED scene
  /\ \/ scene = "session" /\ Next /\ UNCHANGED <<urlVars, cacheVars, syntax, errors, greeting, dialog, board, inserts>>
     \/ scene = "url" /\ UrlNext /\ UNCHANGED <<vars, cacheVars, syntax, errors, greeting, dialog, board, inserts>>
     \/ scene = "statements" /\ CacheNext /\ UNCHANGED <<vars, urlVars, syntax, errors, greeting, dialog, board, inserts>>
     \/ scene = "syntax" /\ SyntaxNext /\ UNCHANGED <<vars, urlVars, cacheVars, errors, greeting, dialog, board, inserts>>
     \/ scene = "errors" /\ ErrorsNext /\ UNCHANGED <<vars, urlVars, cacheVars, syntax, greeting, dialog, board, inserts>>
     \/ scene = "handshake" /\ HandshakeNext /\ UNCHANGED <<vars, urlVars, cacheVars, syntax, errors, dialog, board, inserts>>
     \/ /\ \/ scene = "savepoints" /\ SavepointsNext
           \/ scene = "info" /\ InfoNext
           \/ scene = "warnings" /\ WarningsNext
        /\ UNCHANGED <<vars, urlVars, cacheVars, syntax, errors, greeting, board, inserts>>
     \/ /\ (scene = "settings" /\ LimitsNext) \/ (scene = "completion" /\ LifeNext)
        /\ UNCHANGED <<vars, urlVars, cacheVars, syntax, errors, greeting, dialog, inserts>>
     \/ scene = "keys" /\ InsertsNext /\ UNCHANGED <<vars, urlVars, cacheVars, syntax, errors, greeting, dialog, board>>
MCSpec == MCInit /\ [][MCNext]_<<scene, vars, urlVars, cacheVars, syntax, errors, greeting, dialog, board, inserts>>
=============================================================================
