-------------------------- MODULE ConnectionOptions --------------------------
(* options/DefaultOptions.cpp and options/Options.cpp: the options of a           *)
(* connection, their names, types, defaults and limits, and how the texts of a    *)
(* URL and of the application's properties become values. A text is a pair: a     *)
(* word, a number, a number with letters behind it, or a number too long for an   *)
(* integer.                                                                       *)
EXTENDS Integers, Sequences, FiniteSets, TLC

Word(w) == <<"word", w>>
Num(n) == <<"number", n>>
Empty == Word("")
Null == <<"null", "">>
Merge(f, g) == g @@ f    \* g where both are defined

-----------------------------------------------------------------------------
(* OptionsMap: every option with the type of its default, which is also the type   *)
(* of the field, its default and its smallest value.                              *)

Option(type, default, least) == [type |-> type, default |-> default, least |-> least, most |-> 0]
Texts(names) == [n \in names |-> Option("string", Empty, 0)]
Switches(value, names) == [n \in names |-> Option("bool", value, 0)]
Number(name, default, least) == name :> Option("int32", default, least)

NetworkOptions ==
  Texts({"user", "password", "pipe", "localSocket", "sharedMemory", "localSocketAddress", "sessionVariables",
         "serverTimezone"})
    @@ Number("connectTimeout", 30000, 0) @@ Number("socketTimeout", 10000, 0)
    @@ Switches(TRUE, {"tcpNoDelay", "nullCatalogMeansCurrent", "tinyInt1isBit"})
    @@ Switches(FALSE, {"tcpAbortiveClose", "interactiveClient", "dumpQueriesOnException",
                     "useOldAliasMetadataBehavior", "allowLocalInfile", "createDatabaseIfNotExist",
                     "yearIsDateType", "useCompression", "allowMultiQueries", "rewriteBatchedStatements"})
RetryOptions ==
  Texts({"socketFactory", "serverSslCert"})
    @@ Switches(TRUE, {"tcpKeepAlive", "trustServerCertificate", "useFractionalSeconds", "useLegacyDatetimeCode"})
    @@ Switches(FALSE, {"pinGlobalTxToPhysicalConnection", "autoReconnect", "failOnReadOnly", "cachePrepStmts",
                     "assureReadOnly", "maximizeMysqlCompatibility"})
    @@ Number("tcpRcvBuf", 0, 0) @@ Number("tcpSndBuf", 0, 0) @@ Number("retriesAllDown", 120, 0)
    @@ Number("failoverLoopRetries", 120, 0) @@ Number("validConnectionTimeout", 0, 0)
    @@ Number("loadBalanceBlacklistTimeout", 50, 0) @@ Number("prepStmtCacheSize", 250, 0)
    @@ Number("prepStmtCacheSqlLimit", 2048, 0)
TlsOptions ==
  Texts({"tlsKey", "tlsCert", "tlsCA", "tlsCAPath", "keyPassword", "enabledTlsProtocolSuites",
         "enabledTlsCipherSuites", "tlsCRL", "tlsCRLPath", "serverRsaPublicKeyFile", "tlsPeerFP", "tlsPeerFPList",
         "connectionAttributes"})
    @@ Switches(TRUE, {"continueBatchOnError", "jdbcCompliantTruncation"})
    @@ Switches(FALSE, {"useServerPrepStmts", "useTls", "cacheCallableStmts", "useBatchMultiSend"})
    @@ Number("callableStmtCacheSize", 150, 0)
StatementOptions ==
  Texts({"logname", "passwordCharacterEncoding", "poolName"})
    @@ Switches(TRUE, {"autocommit"})
    @@ Switches(FALSE, {"profileSql", "usePipelineAuth", "enablePacketDebug", "disableSslHostnameVerification",
                     "useBulkStmts", "pool"})
    @@ Number("useBatchMultiSendNumber", 100, 1) @@ Number("maxQuerySizeToLog", 1024, 0)
    @@ "log" :> [Option("uint32", 0, 0) EXCEPT !.most = 5] @@ "slowQueryThresholdNanos" :> Option("int64", 0, 0)
    @@ "useCharacterEncoding" :> Option("string", Word("utf8mb4"), 0)
    @@ Number("maxPoolSize", 8, 1) @@ Number("minPoolSize", 0, 0)
PoolOptions ==
  Texts({"galeraAllowedState", "servicePrincipalName", "credentialType"})
    @@ Switches(TRUE, {"useResetConnection", "useReadAheadInput"})
    @@ Switches(FALSE, {"staticGlobal", "allowMasterDownConnection", "useAffectedRows",
                     "includeInnodbStatusInDeadlockExceptions", "includeThreadDumpInDeadlockExceptions",
                     "useMysqlMetadata", "blankTableNameMeta"})
    @@ Number("maxIdleTime", 600, 60) @@ Number("poolValidMinDelay", 1000, 0) @@ Number("defaultFetchSize", 0, 0)

(* The table is filled with copies, and a copy of an unsigned Value is 0: the        *)
(* largest value is lost. A largest value of 0 is none.                              *)
Copied(option) == IF option.type = "uint32" THEN [option EXCEPT !.most = 0, !.default = 0] ELSE option
OptionsTable == NetworkOptions @@ RetryOptions @@ TlsOptions @@ StatementOptions @@ PoolOptions
OptionsMap == [n \in DOMAIN OptionsTable |-> Copied(OptionsTable[n])]

(* Options::Field: an option of the table that has no field cannot be set.        *)
Field == DOMAIN OptionsMap \ {"useLegacyDatetimeCode"}

(* Other names of an option.                                                      *)
Aliases ==
  "userName" :> "user" @@ "socket" :> "localSocket" @@ "createDB" :> "createDatabaseIfNotExist"
    @@ "useSSL" :> "useTls" @@ "useSsl" :> "useTls" @@ "profileSQL" :> "profileSql"
    @@ "enabledSSLCipherSuites" :> "enabledTlsCipherSuites" @@ "enabledSslCipherSuites" :> "enabledTlsCipherSuites"
    @@ "MARIADB_OPT_TLS_PASSPHRASE" :> "keyPassword" @@ "sslCert" :> "tlsCert" @@ "sslCA" :> "tlsCA"
    @@ "tlsCa" :> "tlsCA" @@ "tlsCaPath" :> "tlsCAPath" @@ "sslCAPath" :> "tlsCAPath"
    @@ "enabledSslProtocolSuites" :> "enabledTlsProtocolSuites"
    @@ "enabledSSLProtocolSuites" :> "enabledTlsProtocolSuites" @@ "sslCRL" :> "tlsCRL" @@ "tlsCrl" :> "tlsCRL"
    @@ "sslCRLPath" :> "tlsCRLPath" @@ "tlsCrlPath" :> "tlsCRLPath" @@ "tlsPeerFp" :> "tlsPeerFP"
    @@ "tlsPeerFpList" :> "tlsPeerFPList" @@ "MARIADB_OPT_TLS_PEER_FP" :> "tlsPeerFP"
    @@ "MARIADB_OPT_SSL_FP_LIST" :> "tlsPeerFPList" @@ "rsaKey" :> "serverRsaPublicKeyFile"
    @@ "OPT_READ_TIMEOUT" :> "socketTimeout" @@ "OPT_RECONNECT" :> "autoReconnect"
    @@ "CLIENT_COMPRESS" :> "useCompression" @@ "OPT_SET_CHARSET_NAME" :> "useCharacterEncoding"
    @@ "useCharset" :> "useCharacterEncoding" @@ "defaultAuth" :> "credentialType"
Names == DOMAIN OptionsMap \cup DOMAIN Aliases
OptionOf(key) == IF key \in DOMAIN Aliases THEN Aliases[key] ELSE key
NamesOf == [n \in DOMAIN OptionsMap |-> {k \in Names : OptionOf(k) = n}]

\* keys are read in the order of the alphabet: these aliases first, those behind their option
FirstAliases == {"useSSL", "enabledSSLCipherSuites", "enabledSSLProtocolSuites"}
LateAliases == {"userName", "socket", "tlsCa", "tlsCaPath", "tlsCrl", "tlsCrlPath", "tlsPeerFp", "tlsPeerFpList",
                "useCharset", "defaultAuth"}
Rank(key) ==
  CASE key \in FirstAliases -> 0 [] key \in LateAliases -> 3 [] key \in DOMAIN OptionsMap -> 2 [] OTHER -> 1

-----------------------------------------------------------------------------
(* Plausible slips                                                                *)
MergeUrlWins(properties, parameters) == Merge(properties, parameters)

-----------------------------------------------------------------------------
(* From texts to values                                                           *)

Bad == [ok |-> FALSE, value |-> 0]
Good(v) == [ok |-> TRUE, value |-> v]

ConvertBool(text) ==
  CASE text \in {Empty, Num(1), Word("true")} -> Good(TRUE)
    [] text \in {Null, Num(0), Word("false")} -> Good(FALSE)
    [] OTHER -> Bad

(* std::stoi and its kin: a number ends at the first letter.                        *)
Checked(option, n) == n >= option.least /\ (option.most # 0 => n <= option.most)
ConvertNumber(option, text) ==
  IF text[1] \in {"number", "mixed"} /\ Checked(option, text[2]) THEN Good(text[2]) ELSE Bad

Convert(option, text) ==
  CASE option.type = "string" -> Good(IF text = Null THEN Empty ELSE text)
    [] option.type = "bool" -> ConvertBool(text)
    [] OTHER -> ConvertNumber(option, text)

(* Options(): every field has the default of the table.                           *)
Defaults == [n \in Field |-> OptionsMap[n].default]

(* What the application's properties say is not changed by the URL.                *)
MergeUrl(properties, parameters) == Merge(parameters, properties)

(* Each key sets the option that it names, in the order of the alphabet: of two    *)
(* names of one option the later one stays. Unknown keys are kept beside. A key    *)
(* that cannot be set, or a text that is no value, ends it with an exception.      *)
SocketTimeoutDefault(mode) == IF mode = "NONE" THEN 30000 ELSE 0
CanSet(n) == n \in Field    \* ClassField::set refuses what is not of its type
KeysOf(properties, n) == DOMAIN properties \cap NamesOf[n]
LastKey(keys) == CHOOSE k \in keys : \A l \in keys : Rank(l) <= Rank(k)
ParseProperties(mode, properties, options) ==
  LET known == DOMAIN properties \cap Names
      fails == \E k \in known : ~CanSet(OptionOf(k)) \/ ~Convert(OptionsMap[OptionOf(k)], properties[k]).ok
      set == [n \in Field |->
                LET keys == KeysOf(properties, n)
                IN  IF keys = {} THEN options[n] ELSE Convert(OptionsMap[n], properties[LastKey(keys)]).value]
  IN  IF fails THEN Bad
      ELSE Good([set EXCEPT !["socketTimeout"] = IF @ = 0 THEN SocketTimeoutDefault(mode) ELSE @])

-----------------------------------------------------------------------------
(* postOptionProcess: values that exclude each other                              *)

AdjustPool(o) ==
  IF o["pool"] /\ (o["minPoolSize"] = 0 \/ o["minPoolSize"] > o["maxPoolSize"])
  THEN [o EXCEPT !["minPoolSize"] = o["maxPoolSize"]] ELSE o
AdjustProtocol(o) ==
  [o EXCEPT !["useServerPrepStmts"] = @ /\ ~o["rewriteBatchedStatements"],
            !["useBatchMultiSend"] = @ /\ o["pipe"] = Empty,
            !["usePipelineAuth"] = @ /\ o["pipe"] = Empty]
AdjustTexts(o) ==
  [o EXCEPT !["useCharacterEncoding"] = IF @ = Word("utf8") THEN Word("utf8mb4") ELSE @,
            !["log"] = IF @ = 0 /\ o["logname"] # Empty THEN 1 ELSE @]
PostOptionProcess(options) ==
  LET o == AdjustTexts(AdjustPool(AdjustProtocol(options)))
  IN  IF o["cacheCallableStmts"] \/ o["usePipelineAuth"] THEN Bad ELSE Good(o)

-----------------------------------------------------------------------------
(* Options::equals and Options::hashCode: the fields that each of them looks at.    *)

NotCompared == {"tlsPeerFP", "logname", "tlsCRL", "tlsCRLPath", "servicePrincipalName", "serverRsaPublicKeyFile",
                "useMysqlMetadata"}
OptionsEqual(o, p) == \A n \in Field \ NotCompared : o[n] = p[n]

\* a hash of equal parts is equal; switches count as 0 or 1, a level of the log as well
NotHashed == NotCompared \cup {"blankTableNameMeta"}
HashPart(n, v) == IF n = "log" THEN v > 0 ELSE v
HashParts(o) == [n \in Field \ NotHashed |-> HashPart(n, o[n])]
=============================================================================
