----------------------------- MODULE Handshake ------------------------------
(* The opening of a connection by ConnectProtocol::createConnection, one attempt  *)
(* after the other: what is set on the handle of the C library, how the version   *)
(* of the server is read and used, and how the session is set up. TLS, the         *)
(* network and the server are seen through their answers.                          *)
EXTENDS Integers, Sequences, SequencesExt

CONSTANTS HandshakeStarts,   \* options, server and connection attributes to begin with
          Timeouts,          \* bound: network timeouts, in milliseconds, up to 2^31 - 1000
          MaxAttempts        \* bound: connections that are opened

ASSUME HandshakeAssumption == MaxAttempts \in Nat /\ Timeouts \subseteq 0..2147482648

VARIABLE greeting
\* greeting.options   tls, key, keyPassword, ca, verify, suites, compression, interactive, affectedRows, infile,
\*                    multiQueries, autocommit, sessionVariables, createDatabase, socketTimeout
\* greeting.server    its version (maria, numbers, a text with Separator for what is no digit), compress, tls,
\*                    variables (which queries for variables it answers)
\* greeting.attributes  the option connectionAttributes, character by character
\* greeting.stage     how far the opening is; handle: options set in the library; first: those of the first attempt
\* greeting.known     what the protocol has learned: capabilities, version, data
\* greeting.session   what the server's session has
Separator == -1
Required == {"max_allowed_packet", "system_time_zone", "time_zone", "auto_increment_increment"}

-----------------------------------------------------------------------------
(* Settings of the handle                                                         *)

(* The flags that the client asks for; they are computed, and compression is       *)
(* switched off in the options if the server is not known to have it, but the      *)
(* library is only given CLIENT_MULTI_STATEMENTS.                                   *)
InitializeClientCapabilities(options, serverCapabilities) ==
  {"PROTOCOL_41", "TRANSACTIONS", "SECURE_CONNECTION", "MULTI_RESULTS", "PLUGIN_AUTH", "CONNECT_ATTRS", "SESSION_TRACK"}
    \cup (IF options.infile THEN {"LOCAL_FILES"} ELSE {})
    \cup (IF options.affectedRows THEN {} ELSE {"FOUND_ROWS"})
    \cup (IF options.multiQueries THEN {"MULTI_STATEMENTS"} ELSE {})
    \cup ({"DEPRECATE_EOF"} \cap serverCapabilities)
    \cup (IF options.compression THEN {"COMPRESS"} \cap serverCapabilities ELSE {})
    \cup (IF options.interactive THEN {"INTERACTIVE"} ELSE {})
    \cup (IF options.database # "" /\ ~options.createDatabase THEN {"CONNECT_WITH_DB"} ELSE {})
\* plausible slip: a copy of the options is changed
OptionsAsGiven(options, serverCapabilities) == options
OptionsAfter(options, serverCapabilities) == [options EXCEPT !.compression = @ /\ "COMPRESS" \in serverCapabilities]

\* The delimiter is taken literally: a list of protocols is one name, sought in the text of all of them.
KnownSuites == {"", "TLSv1.1", "TLSv1.2", "TLSv1.3"}
EnabledTlsProtocolSuites(options) == options.suites \in KnownSuites

SslWrapper(options) ==
  (IF options.tls THEN {"SSL_ENFORCE"} ELSE {})
    \cup (IF options.suites # "" THEN {"TLS_VERSION"} ELSE {})
    \cup (IF options.key THEN {"SSL_KEY"} ELSE {})
    \cup (IF options.key /\ options.keyPassword THEN {"TLS_PASSPHRASE"} ELSE {})
    \cup (IF options.ca THEN {"SSL_CA"} ELSE {})
    \cup (IF options.verify THEN {"SSL_VERIFY_SERVER_CERT"} ELSE {})

CompressionHandler(options, serverCapabilities) ==
  IF options.compression /\ "COMPRESS" \in serverCapabilities THEN {"COMPRESS"} ELSE {}

\* from each start to the next comma, the last one only if there is something left
Tokenize(text) ==
  LET Begins == {1} \cup {i + 1 : i \in {j \in 1..Len(text) : text[j] = ","}}
      End(s) == CHOOSE e \in s..(Len(text) + 1) :
                  (e > Len(text) \/ text[e] = ",") /\ \A k \in s..(e - 1) : text[k] # ","
  IN  {<<s, End(s) - s>> : s \in {t \in Begins : t <= Len(text)}}

TrimBlanks(text) ==
  LET at == {i \in 1..Len(text) : text[i] # " "}
  IN  IF at = {} THEN <<>>
      ELSE SubSeq(text, CHOOSE i \in at : \A j \in at : i <= j, CHOOSE i \in at : \A j \in at : i >= j)

\* strchr looks beyond the token, to the end of the text
ValueIsHere(size, at) == at # 0 /\ at - 1 <= size
SetConnectionAttributes(text) ==
  LET Rest(s) == SubSeq(text, s, Len(text))
      Colon(s) == LET at == {i \in 1..Len(Rest(s)) : Rest(s)[i] = ":"}
                  IN  IF at = {} THEN 0 ELSE CHOOSE i \in at : \A j \in at : i <= j
      Pair(s, size) == <<TrimBlanks(SubSeq(text, s, s + Colon(s) - 2)), TrimBlanks(SubSeq(text, s + Colon(s), s + size - 1))>>
  IN  {Pair(t[1], t[2]) : t \in {u \in Tokenize(text) : ValueIsHere(u[2], Colon(u[1]))}}

-----------------------------------------------------------------------------
(* The version of the server                                                      *)

NewVersion == [type |-> 0, val |-> 0, done |-> FALSE, numbers |-> <<0, 0, 0>>]
VersionChar(v, c) ==
  IF v.done THEN v
  ELSE IF c # Separator THEN [v EXCEPT !.val = @ * 10 + c]
  ELSE [v EXCEPT !.numbers = IF v.type < 3 THEN [@ EXCEPT ![v.type + 1] = v.val] ELSE @,
                 !.type = @ + 1, !.val = 0, !.done = v.type = 2]
ParseVersion(text) ==
  LET v == FoldLeft(VersionChar, NewVersion, text)
  IN  IF ~v.done /\ v.type = 2 THEN [v.numbers EXCEPT ![3] = v.val] ELSE v.numbers

VersionGreaterOrEqual(v, major, minor, patch) ==
  \/ v[1] > major
  \/ v[1] = major /\ v[2] > minor
  \/ v[1] = major /\ v[2] = minor /\ v[3] >= patch

CanUseServerTimeout(v) == VersionGreaterOrEqual(v, 10, 1, 2)
IsolationVariable(maria, v) ==
  IF ~maria /\ ((v[1] >= 8 /\ VersionGreaterOrEqual(v, 8, 0, 3)) \/ (v[1] < 8 /\ VersionGreaterOrEqual(v, 5, 7, 20)))
  THEN "transaction_isolation" ELSE "tx_isolation"

-----------------------------------------------------------------------------
(* createConnection                                                               *)

InSeconds(millis) == (millis + 999) \div 1000

Stage(stage) == greeting' = [greeting EXCEPT !.stage = stage]
Refused == [greeting EXCEPT !.stage = "refused"]

Configure ==
  LET o == greeting.options
      capabilities == greeting.known.capabilities
      handle == SslWrapper(o) \cup CompressionHandler(o, capabilities)
  IN  /\ greeting.stage = "new" /\ greeting.attempts < MaxAttempts
      /\ IF EnabledTlsProtocolSuites(o)
         THEN greeting' = [greeting EXCEPT !.stage = "configured", !.options = OptionsAfter(o, capabilities), !.handle = handle,
                                           !.first = IF greeting.attempts = 0 THEN handle ELSE @,
                                           !.attempts = @ + 1, !.sent = SetConnectionAttributes(greeting.attributes),
                                           !.asked = InitializeClientCapabilities(o, capabilities)]
         ELSE greeting' = Refused

\* The library connects, with the database of the URL; then version and capabilities are read.
RealConnect ==
  /\ greeting.stage = "configured"
  /\ \/ greeting' = Refused
     \/ /\ greeting.options.database # "missing"
        /\ greeting' = [greeting EXCEPT
             !.stage = "connected", !.connected = TRUE,
             !.known.version = ParseVersion(greeting.server.text), !.known.maria = greeting.server.maria,
             !.known.capabilities = greeting.server.capabilities, !.known.data = {},
             \* a new handle; what was set later is only remembered
             !.readTimeout = InSeconds(greeting.options.socketTimeout),
             !.socketTimeout = IF greeting.options.socketTimeout > 0 THEN greeting.options.socketTimeout ELSE @,
             !.session = [autocommit |-> TRUE, variables |-> FALSE]]

-----------------------------------------------------------------------------
(* postConnectionQueries. A failure destroys the handle and is thrown; connected   *)
(* stays TRUE.                                                                     *)

SendSessionInfos ==
  /\ greeting.stage = "connected"
  /\ \/ greeting' = [greeting EXCEPT !.stage = "set", !.session.autocommit = greeting.options.autocommit,
                                     !.session.variables = greeting.options.sessionVariables]
     \/ greeting.options.sessionVariables /\ greeting' = Refused

ReadRequestSessionVariables ==
  /\ greeting.stage = "set"
  /\ greeting' = IF "select" \in greeting.server.variables
                 THEN [greeting EXCEPT !.stage = "loaded", !.known.data = Required]
                 ELSE [greeting EXCEPT !.stage = "show"]

ShowRows(rows) == IF rows = Required THEN [greeting EXCEPT !.stage = "loaded", !.known.data = rows] ELSE Refused
RequestSessionDataWithShow ==
  /\ greeting.stage = "show"
  /\ \/ \E rows \in {Required, Required \ {"time_zone"}} : greeting' = ShowRows(rows)
     \/ greeting' = Refused

AdditionalData ==
  /\ greeting.stage = "loaded"
  /\ \/ Stage("open")
     \/ greeting.options.createDatabase /\ greeting' = Refused

-----------------------------------------------------------------------------
(* Afterwards                                                                     *)

ChangeSocketSoTimeout(millis) ==
  /\ greeting.stage = "open"
  /\ greeting' = [greeting EXCEPT !.socketTimeout = millis, !.readTimeout = InSeconds(millis)]

LoseConnection == greeting.stage = "open" /\ greeting.connected /\ greeting' = [greeting EXCEPT !.connected = FALSE]

\* Connection::reconnect and setClientInfo: the library connects again, nothing is set up.
ClientReconnect ==
  /\ greeting.stage = "open" /\ ~greeting.connected
  /\ \/ UNCHANGED greeting
     \/ greeting' = [greeting EXCEPT !.connected = TRUE, !.reopened = TRUE,
                                     !.session = [autocommit |-> TRUE, variables |-> FALSE]]

\* another host, or connect() after a loss
ConnectAgain ==
  /\ greeting.stage = "refused" \/ (greeting.stage = "open" /\ ~greeting.connected)
  /\ greeting' = [greeting EXCEPT !.stage = "new", !.connected = FALSE, !.reopened = FALSE]

-----------------------------------------------------------------------------
HandshakeFrom(s) ==
  greeting = [options |-> s.options, server |-> s.server, attributes |-> s.attributes, stage |-> "new",
              connected |-> FALSE, reopened |-> FALSE, attempts |-> 0, handle |-> {}, first |-> {}, sent |-> {}, asked |-> {},
              known |-> [capabilities |-> {}, version |-> <<0, 0, 0>>, maria |-> FALSE, data |-> {}],
              session |-> [autocommit |-> TRUE, variables |-> FALSE], socketTimeout |-> 0, readTimeout |-> 0]

HandshakeInit == \E s \in HandshakeStarts : HandshakeFrom(s)

HandshakeNext ==
  \/ Configure \/ RealConnect \/ SendSessionInfos \/ ReadRequestSessionVariables
  \/ RequestSessionDataWithShow \/ AdditionalData \/ LoseConnection \/ ClientReconnect \/ ConnectAgain
  \/ \E millis \in Timeouts : ChangeSocketSoTimeout(millis)

HandshakeSpec == HandshakeInit /\ [][HandshakeNext]_greeting

-----------------------------------------------------------------------------
(* Properties                                                                     *)

VersionNumber(v) == v[1] * 10000 + v[2] * 100 + v[3]

(* The numbers parseVersion makes of the text are the server's, whatever follows    *)
(* them, and what the connection decides by them is right for this server: the      *)
(* isolation is asked of a variable that it has, and a time limit is only sent in   *)
(* SET STATEMENT to a MariaDB server that takes it.                                 *)
VersionIsUnderstood ==
  greeting.stage = "open" =>
    LET s == greeting.server
        v == greeting.known.version
        n == VersionNumber(s.numbers)
        Has == IF s.maria THEN {"tx_isolation"}
               ELSE (IF n < 80003 THEN {"tx_isolation"} ELSE {})
                      \cup (IF n >= 80003 \/ (n >= 50720 /\ n < 80000) THEN {"transaction_isolation"} ELSE {})
    IN  /\ v = s.numbers
        /\ IsolationVariable(s.maria, v) \in Has
        /\ CanUseServerTimeout(v) <=> s.maria /\ n >= 100102

\* what is written between two commas
WrittenPairs(text) ==
  LET Between(i, j) == SubSeq(text, i, j)
      Free(i, j) == \A k \in i..j : text[k] # ","
  IN  {Between(p[1], p[2]) : p \in {q \in (1..Len(text)) \X (1..Len(text)) :
         /\ q[1] <= q[2] /\ Free(q[1], q[2])
         /\ q[1] = 1 \/ text[q[1] - 1] = ","
         /\ q[2] = Len(text) \/ text[q[2] + 1] = ","}}
Divided(piece) ==
  LET c == CHOOSE i \in 1..Len(piece) : piece[i] = ":" /\ \A j \in 1..(i - 1) : piece[j] # ":"
  IN  <<TrimBlanks(SubSeq(piece, 1, c - 1)), TrimBlanks(SubSeq(piece, c + 1, Len(piece)))>>

(* The pairs of connectionAttributes reach the server, each key with the value       *)
(* written behind its own colon, and a word without a colon never takes the colon    *)
(* of the pair that follows it.                                                      *)
AttributesArrive ==
  greeting.stage = "configured" =>
    greeting.sent = {Divided(p) : p \in {q \in WrittenPairs(greeting.attributes) : \E i \in 1..Len(q) : q[i] = ":"}}

(* Whatever the driver has learned of a server in between, the next attempt and the  *)
(* reconnection configure their handle as the first attempt did.                      *)
SameSettingsAgain == greeting.stage = "configured" => greeting.handle = greeting.first

(* A connection that createConnection hands out has all four values it needs of the   *)
(* server, whichever of the queries for them failed on the way, and its session has   *)
(* the autocommit mode and the variables of the options.                              *)
SessionIsInitialised ==
  greeting.stage = "open" =>
    /\ greeting.known.data = Required
    /\ ~greeting.reopened =>
         /\ greeting.session.autocommit = greeting.options.autocommit
         /\ greeting.session.variables = greeting.options.sessionVariables

(* The library counts in seconds, with 0 for no limit: a timeout that is set never    *)
(* becomes none and never becomes shorter. (One that was set with setNetworkTimeout   *)
(* does not outlive the handle unless the options have one.)                          *)
TimeoutIsKept ==
  greeting.stage = "open" /\ (greeting.attempts = 1 \/ greeting.options.socketTimeout > 0) =>
    /\ (greeting.readTimeout = 0) <=> (greeting.socketTimeout = 0)
    /\ greeting.readTimeout * 1000 >= greeting.socketTimeout

(* A new session is the one its options and its server ask for, at the first attempt  *)
(* and at every later one: version, attributes, options, session commands and         *)
(* timeouts.                                                                          *)
OpenedAsConfigured ==
  /\ VersionIsUnderstood
  /\ AttributesArrive
  /\ SameSettingsAgain
  /\ SessionIsInitialised
  /\ TimeoutIsKept
=============================================================================
