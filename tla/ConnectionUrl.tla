---------------------------- MODULE ConnectionUrl ----------------------------
(* From a URL and properties to the configuration of a connection: UrlParser.cpp,  *)
(* HostAddress.cpp, MariaDbDriver.cpp and MariaDbDataSource.cpp, whose setters      *)
(* parse the URL again. A URL is a sequence of words, numbers and signs; the parser *)
(* looks for the signs. Positions begin at 1 and Npos, nothing found, is 0: a       *)
(* search behind Npos begins at the front, as it does in the code.                  *)
EXTENDS ConnectionOptions, SequencesExt

CONSTANTS
  Starts,       \* data sources: [url, properties, calls], calls bounds what the application does
                \*   with it; a URL is [scheme, mode, hosts, database, parameters], as it is
                \*   meant, properties are a function from keys to texts
  Urls,         \* URLs for setUrl
  PropertySets, \* properties for setProperties
  Dials,        \* properties for MariaDbDriver::connect: [by, host, schema]
  UserNames

NoParser == <<>>
NoUser == Empty
Npos == 0
DefaultPort == 3306
Sign(c) == <<"sign", c>>
Find(url, c, from) ==
  LET at == {i \in from..Len(url) : url[i] = Sign(c)}
  IN  IF at = {} THEN Npos ELSE CHOOSE i \in at : \A j \in at : i <= j
\* a negative count is a very large one
Substr(url, from, count) ==
  SubSeq(url, from, IF count < 0 \/ from + count - 1 > Len(url) THEN Len(url) ELSE from + count - 1)
Rest(url, from) == SubSeq(url, from, Len(url))
RECURSIVE Split(_, _)
Split(s, c) ==
  LET at == Find(s, c, 1)
  IN  IF at = Npos THEN <<s>> ELSE <<SubSeq(s, 1, at - 1)>> \o Split(Rest(s, at + 1), c)

-----------------------------------------------------------------------------
(* What the application writes                                                     *)

Signs(chars) == [i \in 1..Len(chars) |-> Sign(chars[i])]
PortText(p) == IF p = DefaultPort THEN <<>> ELSE <<Sign(":"), Num(p)>>
HostText(h) ==
  CASE h.form = "name" -> <<Word(h.host)>> \o PortText(h.port)
    [] h.form = "ipv6" -> <<Sign("["), Word(h.host), Sign("]")>> \o PortText(h.port)
    [] h.form = "address" -> <<Word("address="), Sign("("), Word("host"), Sign("="), Word(h.host), Sign(")")>>
Joined(texts, c) ==
  FlattenSeq([i \in 1..Len(texts) |-> IF i = 1 THEN texts[i] ELSE <<Sign(c)>> \o texts[i]])
\* the text Empty is written without a sign, a path with its slash
ValueText(t) == IF t = Word("/path") THEN <<Sign("/"), Word("path")>> ELSE <<t>>
ParameterText(p) == <<Word(p[1])>> \o (IF p[2] = Empty THEN <<>> ELSE <<Sign("=")>> \o ValueText(p[2]))
HostsText(u) == Joined([i \in 1..Len(u.hosts) |-> HostText(u.hosts[i])], ",")
UrlText(u) ==
  (IF u.scheme # "jdbc" THEN <<Word(u.scheme), Sign(":")>>
   ELSE <<Word("jdbc"), Sign(":"), Word("mariadb"), Sign(":")>>
          \o (IF u.mode = "NONE" THEN <<>> ELSE <<Word(u.mode), Sign(":")>>))
    \o Signs(<<"/", "/">>) \o HostsText(u)
    \o (IF u.database = "" THEN <<>> ELSE <<Sign("/"), Word(u.database)>>)
    \o (IF u.parameters = <<>> THEN <<>>
        ELSE <<Sign("?")>> \o Joined([i \in 1..Len(u.parameters) |-> ParameterText(u.parameters[i])], "&"))

-----------------------------------------------------------------------------
(* Plausible slips                                                                *)
DialledUriNoSchema(d) == IF d.by = "hostName" THEN <<Word("tcp"), Sign(":"), Sign("/"), Sign("/"), Word(d.host)>> ELSE <<>>

-----------------------------------------------------------------------------
(* The URL                                                                        *)

(* StrHaModeMap answers NONE for a name that it does not know.                     *)
HaModes == {"AURORA", "REPLICATION", "SEQUENTIAL", "LOADBALANCE"}
HaModeNamed(name) ==
  CASE name = <<Word("FAILOVER")>> -> "LOADBALANCE"
    [] \E m \in HaModes : name = <<Word(m)>> -> name[1][2]
    [] OTHER -> "NONE"

(* The mode stands between the second colon and the third, or the slashes.          *)
ModeBetween(url, second, end) ==
  IF end = second + 1 THEN "NONE" ELSE HaModeNamed(Substr(url, second + 1, end - second - 1))
ModeBehind(url, second, third, separator) ==
  ModeBetween(url, second, IF third > separator \/ third = Npos THEN separator ELSE third)
ParseHaMode(url, separator) ==
  LET second == Find(url, ":", Find(url, ":", 1) + 1)
  IN  ModeBehind(url, second, Find(url, ":", second + 1), separator)

\* a text that is no number is no port; letters behind a number are ignored
GetPort(text) == IF text # <<>> /\ text[1][1] \in {"number", "mixed"} THEN Good(text[1][2]) ELSE Bad
Address(host, port) == [host |-> host, port |-> port]

(* The closing bracket stays with the host.                                        *)
AddressWith(host, port) == IF port.ok THEN Good(Address(host, port.value)) ELSE Bad
BracketedAddress(str, bracket) ==
  AddressWith(Substr(str, 2, bracket - 1),
              IF bracket < Len(str) /\ str[bracket + 1] = Sign(":") THEN GetPort(Rest(str, bracket + 2))
              ELSE Good(DefaultPort))
PlainAddress(parts) == AddressWith(parts[1], IF Len(parts) = 1 THEN Good(DefaultPort) ELSE GetPort(parts[2]))
ParseSimpleHostAddress(str) ==
  CASE str = <<>> -> Bad
    [] str # <<>> /\ str[1] = Sign("[") -> BracketedAddress(str, Find(str, "]", 1))
    [] OTHER -> PlainAddress(Split(str, ":"))

(* The loop over the pairs looks for the first bracket again and again: it ends     *)
(* with an exception, without a pair, or never.                                     *)
IsParameterHost(str) == str # <<>> /\ str[1] = Word("address=")
ParseParameterHostAddress(str) ==
  LET open == Find(str, "(", 1)
      close == Find(str, ")", open + 1)
  IN  CASE open = Npos -> Good(Address(<<>>, DefaultPort))
        [] open # Npos /\ close # Npos /\ Len(Split(SubSeq(str, open + 1, close - 1), "=")) = 2 -> [ok |-> FALSE, value |-> 1]
        [] OTHER -> Bad
Endless(outcome) == ~outcome.ok /\ outcome.value = 1

(* A sequential list is left to the C API.                                         *)
AllOf(outcomes) ==
  LET failing == {i \in 1..Len(outcomes) : ~outcomes[i].ok}
  IN  IF failing = {} THEN Good([i \in 1..Len(outcomes) |-> outcomes[i].value])
      ELSE outcomes[CHOOSE i \in failing : \A j \in failing : i <= j]
HostOutcomes(tokens) ==
  [i \in 1..Len(tokens) |-> IF IsParameterHost(tokens[i]) THEN ParseParameterHostAddress(tokens[i])
                            ELSE ParseSimpleHostAddress(tokens[i])]
ParseHosts(spec, mode) ==
  CASE spec = <<>> -> Bad
    [] spec # <<>> /\ mode = "SEQUENTIAL" -> Good(<<Address(spec, DefaultPort)>>)
    [] OTHER -> AllOf(HostOutcomes(Split(spec, ",")))

\* of two parameters with one key the first one stays
ParameterKey(p) == p[1][2]
ParameterValue(p) ==
  LET at == Find(p, "=", 1) IN IF at = Npos \/ at = Len(p) THEN Empty
                               ELSE IF p[at + 1] = Sign("/") THEN Word("/path") ELSE p[at + 1]
ParametersOf(ps) ==
  LET named(k) == {i \in 1..Len(ps) : ParameterKey(ps[i]) = k}
  IN  [k \in {ParameterKey(ps[i]) : i \in 1..Len(ps)} |->
         ParameterValue(ps[CHOOSE i \in named(k) : \A j \in named(k) : i <= j])]
UrlParameters(text) == ParametersOf(IF text = <<>> THEN <<>> ELSE Split(text, "&"))

Outcome(result, parser, properties) == [result |-> result, parser |-> parser, properties |-> properties]

(* The database ends at the question mark; a slash behind the question mark makes   *)
(* the rest of the URL the database. The URL's parameters join the properties of    *)
(* the caller, who keeps them.                                                      *)
DatabaseIn(more, from, qm) == IF more = <<>> THEN <<>> ELSE Substr(more, from, IF qm = Npos THEN -1 ELSE qm - from)
Settled(read) == IF read.ok THEN PostOptionProcess(read.value) ELSE read
ParserOf(url, mode, database, options, addresses, merged) ==
  CASE ~options.ok -> Outcome("throws", NoParser, merged)
    [] options.ok /\ ~addresses.ok -> Outcome(IF Endless(addresses) THEN "hangs" ELSE "throws", NoParser, merged)
    [] OTHER -> Outcome("parsed", [url |-> url, mode |-> mode, hosts |-> addresses.value, options |-> options.value,
                                   database |-> database], merged)
ParserFrom(url, mode, hosts, database, merged) ==
  ParserOf(url, mode, database, Settled(ParseProperties(mode, merged, Defaults)), ParseHosts(hosts, mode), merged)
DefineUrlParserParameters(url, mode, hosts, more, properties) ==
  LET qm == Find(more, "?", 1)
  IN  ParserFrom(url, mode, hosts, DatabaseIn(more, Find(more, "/", 1) + 1, qm),
                 MergeUrl(properties, UrlParameters(IF qm = Npos THEN <<>> ELSE Rest(more, qm + 1))))

(* The hosts end at the first slash or question mark.                               *)
SlashesAt(url) ==
  LET slashes == {i \in 1..(Len(url) - 1) : url[i] = Sign("/") /\ url[i + 1] = Sign("/")}
  IN  IF slashes = {} THEN Npos ELSE CHOOSE i \in slashes : \A j \in slashes : i <= j
HostsEnd(text) ==
  LET ends == {i \in 1..Len(text) : text[i] \in {Sign("/"), Sign("?")}}
  IN  IF ends = {} THEN Len(text) + 1 ELSE CHOOSE i \in ends : \A j \in ends : i <= j
ParseBehind(url, mode, second, end, properties) ==
  IF mode \notin {"NONE", "SEQUENTIAL"} THEN Outcome("throws", NoParser, properties)
  ELSE DefineUrlParserParameters(url, mode, SubSeq(second, 1, end - 1), Rest(second, end), properties)
ParseFrom(url, separator, second, properties) ==
  IF separator = Npos THEN Outcome("throws", NoParser, properties)
  ELSE ParseBehind(url, ParseHaMode(url, separator), second, HostsEnd(second), properties)
ParseInternal(url, properties) ==
  LET separator == SlashesAt(url) IN ParseFrom(url, separator, Rest(url, separator + 2), properties)

AcceptsUrl(url) ==
  \/ url = <<>>
  \/ Len(url) >= 4 /\ SubSeq(url, 1, 4) = <<Word("jdbc"), Sign(":"), Word("mariadb"), Sign(":")>>
  \/ \E s \in {"tcp", "pipe", "unix"} : Len(url) >= 4 /\ SubSeq(url, 1, 4) = <<Word(s), Sign(":"), Sign("/"), Sign("/")>>
UrlParse(url, properties) ==
  IF AcceptsUrl(url) THEN ParseInternal(url, properties) ELSE Outcome("refused", NoParser, properties)

-----------------------------------------------------------------------------
(* The driver's connect with properties: a host, a pipe or a socket, and a schema.  *)
(* The property of the host, or of the socket, is taken out.                        *)

WithScheme(scheme, text) == <<Word(scheme), Sign(":"), Sign("/"), Sign("/")>> \o text
NormalizeLegacyUri(text) == IF AcceptsUrl(text) THEN text ELSE WithScheme("tcp", text)
DialledUri(d) ==
  (CASE d.by = "hostName" -> NormalizeLegacyUri(d.host)
     [] d.by = "pipe" -> WithScheme("pipe", d.host)
     [] d.by = "socket" -> WithScheme("unix", d.host)
     [] OTHER -> <<>>) \o (IF d.schema = "" THEN <<>> ELSE <<Sign("/"), Word(d.schema)>>)
DialledProperties(d) ==
  (IF d.by = "pipe" THEN "pipe" :> d.host[1] ELSE <<>>) @@ (IF d.schema = "" THEN <<>> ELSE "schema" :> Word(d.schema))

-----------------------------------------------------------------------------
(* A data source. Its parser is made by the first connection and made again by      *)
(* every setter behind it. Credentials are one name.                                *)

VARIABLES
  source,   \* [url, user, timeout, properties, parser, state]
  dialled,  \* [dial, outcome] of the driver's last connect, or <<>>
  told      \* history: [given: what the application set as properties, urls: the URLs parsed
            \*   since then, renamed: getConnection(user) was called, calls: that are left]

urlVars == <<source, dialled, told>>

UrlFrom(s) ==
  /\ source = [url |-> s.url, user |-> NoUser, timeout |-> 0, properties |-> s.properties,
               parser |-> NoParser, state |-> "fresh"]
  /\ told = [given |-> s.properties, urls |-> <<>>, renamed |-> FALSE, calls |-> s.calls]
  /\ dialled = <<>>
UrlInit == \E s \in Starts : UrlFrom(s)

(* initialize(): the setters' values become properties, and so do the URL's          *)
(* parameters. When the URL is not understood the old parser stays.                  *)
SourceProperties(src) ==
  "pool" :> Word("true")
    @@ (IF src.user = NoUser THEN <<>> ELSE "user" :> src.user)
    @@ (IF src.timeout = 0 THEN <<>> ELSE "connectTimeout" :> Num(src.timeout))
WithOutcome(src, outcome) ==
  [src EXCEPT !.properties = outcome.properties, !.state = outcome.result,
              !.parser = IF outcome.result \in {"parsed", "refused"} THEN outcome.parser ELSE @]
Initialize(src) ==
  WithOutcome(src, UrlParse(UrlText(src.url), Merge(src.properties, SourceProperties(src))))
Initialized(src) ==
  /\ source' = Initialize(src)
  /\ told' = [told EXCEPT !.urls = Append(@, src.url), !.given = Merge(@, SourceProperties(src)), !.calls = @ - 1]

Calling == source.state # "hangs" /\ told.calls > 0
ReInitializeIfNeeded(src) ==
  IF src.parser # NoParser THEN Initialized(src)
  ELSE source' = src /\ told' = [told EXCEPT !.calls = @ - 1]

SetUser(u) == Calling /\ ReInitializeIfNeeded([source EXCEPT !.user = u]) /\ UNCHANGED dialled
SetUrl(u) == Calling /\ ReInitializeIfNeeded([source EXCEPT !.url = u]) /\ UNCHANGED dialled
SetProperties(p) ==
  /\ Calling
  /\ LET src == [source EXCEPT !.properties = p]
     IN  /\ source' = IF src.parser # NoParser THEN Initialize(src) ELSE src
         /\ told' = [told EXCEPT !.given = IF src.parser # NoParser THEN Merge(p, SourceProperties(src)) ELSE p,
                                 !.urls = IF src.parser # NoParser THEN <<src.url>> ELSE <<>>, !.calls = @ - 1]
  /\ UNCHANGED dialled
SetLoginTimeout(ms) ==
  /\ Calling
  /\ source' = [source EXCEPT !.timeout = ms]
  /\ told' = [told EXCEPT !.calls = @ - 1] /\ UNCHANGED dialled

GetConnection ==
  /\ Calling /\ source.parser = NoParser
  /\ Initialized(source) /\ UNCHANGED dialled

(* The connection is made with a copy that was taken before the parser got the name. *)
Renamed(src, u) == IF src.parser = NoParser THEN src ELSE [src EXCEPT !.parser.options["user"] = u]
GetConnectionAs(u) ==
  /\ Calling
  /\ source' = Renamed(IF source.parser = NoParser THEN Initialize([source EXCEPT !.user = u]) ELSE source, u)
  /\ told' = [told EXCEPT !.renamed = TRUE, !.calls = @ - 1,
       !.urls = IF source.parser = NoParser THEN Append(@, source.url) ELSE @,
       !.given = IF source.parser = NoParser THEN Merge(@, SourceProperties([source EXCEPT !.user = u])) ELSE @]
  /\ UNCHANGED dialled

(* The driver's own connect, which no data source has a part in: it is asked when    *)
(* the data source has nothing left to do.                                           *)
Dial(d) ==
  /\ dialled = <<>> /\ told.calls = 0 /\ source.state = "fresh"
  /\ dialled' = <<d, UrlParse(DialledUri(d), DialledProperties(d))>>
  /\ UNCHANGED <<source, told>>

UrlNext ==
  \/ \E u \in UserNames : SetUser(u) \/ GetConnectionAs(u)
  \/ \E u \in Urls : SetUrl(u)
  \/ \E p \in PropertySets : SetProperties(p)
  \/ \E d \in Dials : Dial(d)
  \/ SetLoginTimeout(1000) \/ GetConnection

-----------------------------------------------------------------------------
(* Properties                                                                     *)

\* bracketed and keyed hosts are not understood, nor a path behind a URL without a database
Regular(u) ==
  /\ \A i \in 1..Len(u.hosts) : u.hosts[i].form = "name"
  /\ u.database = "" => \A i \in 1..Len(u.parameters) : u.parameters[i][2] # Word("/path")
Meant(u) ==
  IF u.mode = "SEQUENTIAL" THEN <<Address(HostsText(u), DefaultPort)>>
  ELSE [i \in 1..Len(u.hosts) |-> Address(<<Word(u.hosts[i].host)>>, u.hosts[i].port)]

(* The mode, the hosts with their ports and the database that a data source connects *)
(* to are those that its last understood URL means, whatever parameters, database,    *)
(* ports and scheme stand around them (UrlParser.cpp parseInternal).                  *)
UrlIsUnderstood ==
  source.parser # NoParser =>
    \A u \in {told.urls[i] : i \in 1..Len(told.urls)} :
      Regular(u) /\ source.parser.url = UrlText(u) =>
        /\ source.parser.mode = u.mode /\ source.parser.hosts = Meant(u)
        /\ source.parser.database = IF u.database = "" THEN <<>> ELSE <<Word(u.database)>>

\* what a name means: the application's properties, then the first URL that has it
Given(k) ==
  LET said == {i \in 1..Len(told.urls) : \E j \in 1..Len(told.urls[i].parameters) : told.urls[i].parameters[j][1] = k}
      u == told.urls[CHOOSE i \in said : \A j \in said : i <= j]
  IN  IF k \in DOMAIN told.given THEN {told.given[k]}
      ELSE IF said = {} THEN {}
      ELSE {u.parameters[j][2] : j \in {x \in 1..Len(u.parameters) :
              u.parameters[x][1] = k /\ \A y \in 1..(x - 1) : u.parameters[y][1] # k}}
Adjusted == {"useServerPrepStmts", "useBatchMultiSend", "minPoolSize", "useCharacterEncoding", "log", "socketTimeout"}
Read(n, text) ==
  CASE OptionsMap[n].type = "string" -> IF text = Null THEN Empty ELSE text
    [] OptionsMap[n].type = "bool" -> text \in {Empty, Num(1), Word("true")}
    [] OTHER -> text[2]

(* An option has the value that its name, or one of its other names, was given: by    *)
(* the application before the URL, by the first URL before later ones; an option that  *)
(* nobody named has its default. Holds when the option was given by one name and the   *)
(* last URL was understood (DefaultOptions.cpp parse, MariaDbDataSource.cpp).          *)
OptionsArrive ==
  source.parser # NoParser /\ source.state = "parsed" =>
    \A n \in Field \ Adjusted :
      LET keys == {k \in NamesOf[n] : Given(k) # {}}
          value == source.parser.options[n]
      IN  CASE n = "user" /\ told.renamed -> TRUE
            [] keys = {} -> value = OptionsMap[n].default
            [] OTHER -> \/ Cardinality(keys) > 1
                        \/ \E t \in Given(CHOOSE k \in keys : TRUE) : value = Read(n, t)

(* Whatever was set, and after any sequence of setters, the options that a pool and    *)
(* its connections use fit together: the pool is between its smallest and its largest   *)
(* size, rewritten batches are not prepared on the server, a pipe is not used with      *)
(* multi-sends, numbers keep their limits (DefaultOptions.cpp postOptionProcess).       *)
OptionsAreCoherent ==
  source.parser # NoParser =>
    LET o == source.parser.options
    IN  /\ o["pool"] => o["minPoolSize"] \in 1..o["maxPoolSize"]
        /\ ~(o["rewriteBatchedStatements"] /\ o["useServerPrepStmts"])
        /\ ~(o["pipe"] # Empty /\ o["useBatchMultiSend"])
        /\ \A n \in Field : OptionsMap[n].type \notin {"string", "bool"} => o[n] >= OptionsMap[n].least
        /\ o["logname"] # Empty => o["log"] > 0

(* Options that are equal have equal hash codes: those of a data source, of the driver *)
(* and the defaults (Options.cpp equals, hashCode).                                    *)
EqualOptionsHashAlike ==
  source.parser # NoParser =>
    LET o == source.parser.options
        others == {[Defaults EXCEPT !["pool"] = TRUE, !["minPoolSize"] = 8],
                   [o EXCEPT !["minPoolSize"] = 1], [o EXCEPT !["log"] = 5], [o EXCEPT !["tlsCRL"] = Word("crl")]}
    IN  \A p \in others : OptionsEqual(o, p) => HashParts(o) = HashParts(p)

(* A connect with a host name or a pipe reaches that host or pipe, with the schema as   *)
(* the database and its options untouched (MariaDbDriver.cpp connect).                  *)
DialledAsAsked ==
  dialled # <<>> /\ dialled[1].by # "socket" =>
    LET d == dialled[1]
        parser == dialled[2].parser
    IN  /\ dialled[2].result = "parsed"
        /\ parser.hosts = <<Address(SubSeq(d.host, 1, 1), IF Len(d.host) = 3 THEN d.host[3][2] ELSE DefaultPort)>>
        /\ parser.database = IF d.schema = "" THEN <<>> ELSE <<Word(d.schema)>>
        /\ d.by = "pipe" => parser.options["pipe"] = d.host[1] /\ ~parser.options["useBatchMultiSend"]

(* The hosts, mode and database of a URL reach the protocol as they were written,       *)
(* through the driver and through a data source whose settings change.                  *)
ConnectsAsAsked == UrlIsUnderstood /\ DialledAsAsked

(* The options of URL, properties and defaults arrive, limit each other as they should  *)
(* in whatever order they came, and make equal configurations share a pool.             *)
OptionsAreTaken == OptionsArrive /\ OptionsAreCoherent /\ EqualOptionsHashAlike
=============================================================================
