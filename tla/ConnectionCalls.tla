-------------------------- MODULE ConnectionCalls ---------------------------
(* The calls of MariaDbConnection that run a statement of their own: savepoints,   *)
(* client info, warnings and the cached setting of the server. The connection may  *)
(* be lost in between, and setClientInfo opens it again. A text is a sequence of   *)
(* characters; the data of a transaction is the sequence of its changes.           *)
EXTENDS Integers, Sequences, SequencesExt

CONSTANTS SavepointNames,   \* names that do not end in a digit
          InfoValues,       \* texts for the client info
          Modes,            \* whether the session begins with NO_BACKSLASH_ESCAPES
          MaxCalls          \* bound: calls of the application; less than ten, as the id is written behind the name

ASSUME CallsAssumption ==
  /\ MaxCalls \in 0..9 /\ Modes \subseteq BOOLEAN
  /\ \A v \in InfoValues : Len(v) \in Nat /\ v = [i \in 1..Len(v) |-> v[i]]

InfoNames == {"ApplicationName", "ClientUser", "ClientHostname"}
NullInfo == <<"NULL">>
NoInfo == [n \in InfoNames |-> NullInfo]
Nothing == [what |-> "nothing"]

VARIABLE dialog
\* dialog.server     changes of the session, the number of them that are committed, savepoints [text, at], client info,
\*                   noBackslashEscapes, warnings: of the statement with this number, or 0
\* dialog.protocol   connected, explicitClosed, noBackslashEscapes, hasWarnings: as the protocol knows them
\* dialog.connection savepointCount, warningsCleared, lowercaseTableNames (-1: not asked for)
\* dialog.held       the savepoints of the application, with the changes at the time
\* dialog.told       the client info as it was last set in this session
\* dialog.atRisk     the names that were set while the protocol did not know the mode of the session
\* dialog.calls      calls so far; cleared, executed: the last one that cleared the warnings, that ran a statement;
\*                   did: the last one and its answer
NewSession(changes, mode) ==
  [changes |-> changes, committed |-> Len(changes), savepoints |-> <<>>, info |-> NoInfo, noBackslashEscapes |-> mode, warnings |-> 0]

-----------------------------------------------------------------------------
(* Statements                                                                     *)

\* createStatement refuses after close; the forms with a type do not look.
CreateStatement(typed) == typed \/ ~dialog.protocol.explicitClosed
CanExecute == dialog.protocol.connected /\ ~dialog.protocol.explicitClosed
Called(d, did) == [d EXCEPT !.calls = @ + 1, !.did = did]
\* A statement that the server has run: its status and its warnings are known, and the warnings are enabled again.
Executed(server, warned, did) ==
  Called([dialog EXCEPT !.server = [server EXCEPT !.warnings = IF warned THEN dialog.calls + 1 ELSE 0],
                        !.protocol.noBackslashEscapes = server.noBackslashEscapes, !.protocol.hasWarnings = warned,
                        !.connection.warningsCleared = FALSE, !.executed = dialog.calls + 1], did)
\* an error of the server, or no connection
Throwing(what) == Called([dialog EXCEPT !.protocol.hasWarnings = FALSE, !.connection.warningsCleared = FALSE],
                       [what |-> what, ok |-> FALSE])
MayCall == dialog.calls < MaxCalls

ApplicationExecutes ==
  /\ MayCall /\ CanExecute /\ CreateStatement(TRUE)
  /\ \E warned \in BOOLEAN :
       dialog' = Executed([dialog.server EXCEPT !.changes = Append(@, dialog.calls + 1)], warned, Nothing)
SetSqlMode ==
  /\ MayCall /\ CanExecute
  /\ dialog' = Executed([dialog.server EXCEPT !.noBackslashEscapes = ~@], FALSE, Nothing)
Commit ==
  /\ MayCall /\ CanExecute
  /\ dialog' = Executed([dialog.server EXCEPT !.committed = Len(dialog.server.changes), !.savepoints = <<>>], FALSE, Nothing)

-----------------------------------------------------------------------------
(* Savepoints. The server keeps one for each text; a rollback or a release drops    *)
(* those that came after it.                                                        *)

\* plausible slip: the count stays
SameSavepoint(count) == count
NextSavepoint(count) == count + 1
SavepointText(name, id) == <<name, id>>
Place(text) == SelectInSeq(dialog.server.savepoints, LAMBDA s : s.text = text)
WithSavepoint(savepoints, text, at) == Append(RemoveFirstMatch(savepoints, LAMBDA s : s.text = text), [text |-> text, at |-> at])

SetSavepoint(name) ==
  LET text == SavepointText(name, dialog.connection.savepointCount)
      at == Len(dialog.server.changes)
      done == Executed([dialog.server EXCEPT !.savepoints = WithSavepoint(@, text, at)], FALSE,
                       [what |-> "savepoint", ok |-> TRUE])
      made == IF CanExecute THEN [done EXCEPT !.held = Append(@, [text |-> text, changes |-> dialog.server.changes])]
              ELSE Throwing("savepoint")
  IN  /\ MayCall
      /\ dialog' = [made EXCEPT !.connection.savepointCount = NextSavepoint(@)]

RollbackTo(i) ==
  LET s == dialog.held[i]
      n == Place(s.text)
      mark == dialog.server.savepoints[n]
  IN  /\ MayCall
      /\ dialog' = IF ~CanExecute \/ n = 0 THEN Throwing("rollback")
                   ELSE Executed([dialog.server EXCEPT !.changes = SubSeq(@, 1, mark.at), !.savepoints = SubSeq(@, 1, n)],
                                 FALSE, [what |-> "rollback", ok |-> TRUE, to |-> i])

ReleaseSavepoint(i) ==
  LET n == Place(dialog.held[i].text)
  IN  /\ MayCall
      /\ dialog' = IF ~CanExecute \/ n = 0 THEN Throwing("release")
                   ELSE Executed([dialog.server EXCEPT !.savepoints = SubSeq(@, 1, n - 1)], FALSE,
                                 [what |-> "release", ok |-> TRUE])

-----------------------------------------------------------------------------
(* Client info: user variables of the session                                      *)

EscapedChar(c, noBackslashEscapes) ==
  IF noBackslashEscapes THEN IF c = "'" THEN <<"'", "'">> ELSE <<c>>
  ELSE IF c \in {"'", "\\", "dq", "nul"} THEN <<"\\", c>> ELSE <<c>>
\* what stands between the quotes, or NULL
Escaped(value, noBackslashEscapes) ==
  LET written[i \in 0..Len(value)] == IF i = 0 THEN <<>> ELSE written[i - 1] \o EscapedChar(value[i], noBackslashEscapes)
  IN  written
BuildClientQuery(value, noBackslashEscapes) ==
  IF value = <<>> THEN NullInfo ELSE Escaped(value, noBackslashEscapes)[Len(value)]

\* how the server reads it: after a quote only a quote may follow, and the end is none of them
ReadChar(s, c, mode) ==
  CASE s.last = "\\" -> [s EXCEPT !.out = Append(@, c), !.last = ""]
    [] s.last = "'" -> IF c = "'" THEN [s EXCEPT !.out = Append(@, c), !.last = ""] ELSE [s EXCEPT !.bad = TRUE]
    [] s.last = "" /\ (c = "'" \/ (c = "\\" /\ ~mode)) -> [s EXCEPT !.last = c]
    [] OTHER -> [s EXCEPT !.out = Append(@, c)]
NothingRead == [out |-> <<>>, last |-> "", bad |-> FALSE]
TextRead(text, mode) ==
  LET read[i \in 0..Len(text)] == IF i = 0 THEN NothingRead ELSE ReadChar(read[i - 1], text[i], mode)
  IN  read
ServerReads(text, mode) ==
  IF text = NullInfo THEN [NothingRead EXCEPT !.out = NullInfo] ELSE TextRead(text, mode)[Len(text)]

\* mariadb_reconnect: a session of the server that has nothing of the old one; the status is that of before
Reconnected == [dialog EXCEPT !.protocol.connected = TRUE]
\* the text is written for the mode that the protocol knows
AtRisk(d, name) ==
  IF d.protocol.noBackslashEscapes # d.server.noBackslashEscapes THEN d.atRisk \cup {name} ELSE d.atRisk \ {name}
SetInfo(d, name, value) ==
  LET read == ServerReads(BuildClientQuery(value, d.protocol.noBackslashEscapes), d.server.noBackslashEscapes)
      known == [d EXCEPT !.atRisk = AtRisk(d, name), !.executed = d.calls]
  IN  IF read.bad \/ read.last # "" THEN [known EXCEPT !.did = [what |-> "info", ok |-> FALSE, name |-> name]]
      ELSE [known EXCEPT !.server.info[name] = read.out, !.told[name] = value,
                         !.protocol.noBackslashEscapes = d.server.noBackslashEscapes]
Renewed == IF dialog.protocol.connected THEN dialog ELSE Reconnected
Asking(did) ==
  [Called(Renewed, did) EXCEPT !.connection.warningsCleared = FALSE, !.protocol.hasWarnings = FALSE, !.server.warnings = 0]

CheckClient(name) == name \in InfoNames /\ ~dialog.protocol.explicitClosed

\* a name that is none of the three is refused; so is a call after close, and one that cannot reconnect
SetClientInfo(name, value) ==
  /\ MayCall
  /\ \/ dialog' = Throwing("refused")
     \/ /\ CheckClient(name)
        /\ dialog' = SetInfo(Asking([what |-> "info", ok |-> TRUE, name |-> name]), name, value)
\* All three, those without a property as NULL; the first of them reconnects.
SetClientInfos(properties) ==
  LET Given(d, name) == SetInfo(d, name, IF name \in DOMAIN properties THEN properties[name] ELSE <<>>)
  IN  /\ MayCall /\ ~dialog.protocol.explicitClosed
      /\ dialog' = Given(Given(Given(Asking(Nothing), "ApplicationName"), "ClientUser"), "ClientHostname")
\* NULL and the empty text are the same to the caller
ValueOf(v) == IF v = NullInfo THEN <<>> ELSE v
GetClientInfo(name) ==
  /\ MayCall
  /\ dialog' = IF ~CanExecute \/ name \notin InfoNames THEN Throwing("read")
               ELSE Executed(dialog.server, FALSE,
                             [what |-> "read", ok |-> TRUE, name |-> name, value |-> ValueOf(dialog.server.info[name])])

-----------------------------------------------------------------------------
(* Warnings and other settings                                                    *)

WarningsToRead == ~dialog.connection.warningsCleared /\ dialog.protocol.hasWarnings
\* SHOW WARNINGS leaves the list of the server; the flag follows what it reports for itself.
GetWarnings ==
  /\ MayCall
  /\ IF CanExecute /\ WarningsToRead
     THEN \E flag \in BOOLEAN :
            dialog' = Called([dialog EXCEPT !.protocol.hasWarnings = flag, !.connection.warningsCleared = FALSE],
                             [what |-> "warnings", of |-> dialog.server.warnings])
     ELSE dialog' = Called(dialog, [what |-> "warnings", of |-> 0])
ClearWarnings ==
  /\ MayCall /\ CanExecute
  /\ dialog' = [Called(dialog, Nothing) EXCEPT !.connection.warningsCleared = TRUE, !.cleared = dialog.calls + 1]

\* asked once for each connection
GetLowercaseTableNames ==
  /\ MayCall
  /\ IF dialog.connection.lowercaseTableNames # -1 THEN dialog' = Called(dialog, Nothing)
     ELSE IF CanExecute
     THEN dialog' = [Executed(dialog.server, FALSE, Nothing) EXCEPT !.connection.lowercaseTableNames = 0]
     ELSE dialog' = Throwing("lowercase")

Close == MayCall /\ dialog' = [Called(dialog, Nothing) EXCEPT !.protocol.explicitClosed = TRUE, !.protocol.connected = FALSE]

\* What was not committed is rolled back by the server; the application begins its info anew.
ConnectionLost ==
  /\ dialog.protocol.connected
  /\ dialog' = [dialog EXCEPT !.protocol.connected = FALSE, !.told = NoInfo, !.atRisk = {}, !.did = Nothing,
                              !.server = NewSession(SubSeq(dialog.server.changes, 1, dialog.server.committed), FALSE)]

-----------------------------------------------------------------------------
CallsInit == \E mode \in Modes :
  dialog = [server |-> NewSession(<<>>, mode), held |-> <<>>, told |-> NoInfo, calls |-> 0, cleared |-> 0, executed |-> 0,
            atRisk |-> {}, did |-> Nothing,
            protocol |-> [connected |-> TRUE, explicitClosed |-> FALSE, noBackslashEscapes |-> mode, hasWarnings |-> FALSE],
            connection |-> [savepointCount |-> 0, warningsCleared |-> TRUE, lowercaseTableNames |-> -1]]

SavepointsNext ==
  \/ ApplicationExecutes \/ Commit \/ Close \/ ConnectionLost
  \/ \E name \in SavepointNames : SetSavepoint(name)
  \/ \E i \in 1..Len(dialog.held) : RollbackTo(i) \/ ReleaseSavepoint(i)
InfoNext ==
  \/ SetSqlMode \/ Close \/ ConnectionLost
  \/ \E name \in InfoNames \cup {"Other"} : GetClientInfo(name) \/ \E value \in InfoValues : SetClientInfo(name, value)
  \/ \E value \in InfoValues : SetClientInfos([n \in {"ClientUser"} |-> value])
WarningsNext ==
  \/ ApplicationExecutes \/ GetWarnings \/ ClearWarnings \/ GetLowercaseTableNames \/ GetClientInfo("ClientUser")
  \/ Close \/ ConnectionLost \/ SetClientInfo("ClientUser", <<>>)
CallsNext == SavepointsNext \/ InfoNext \/ WarningsNext

CallsSpec == CallsInit /\ [][CallsNext]_dialog

-----------------------------------------------------------------------------
(* Properties                                                                     *)

(* A rollback to a savepoint brings back the data as it was when exactly this       *)
(* savepoint was set, or it fails because the server no longer has it: never the    *)
(* data of another savepoint of the same name, before or after a commit, a release, *)
(* another rollback or a savepoint that could not be set.                           *)
RollbackReturns ==
  dialog.did.what = "rollback" /\ dialog.did.ok => dialog.server.changes = dialog.held[dialog.did.to].changes

(* A client info that was set without an error, alone or with the others, is what    *)
(* getClientInfo reads in this session, whatever quotes and backslashes it has and   *)
(* whichever way the session escapes them; and no value is refused as an error of     *)
(* syntax. (Right after a reconnection the protocol still goes by the mode of the     *)
(* lost session: the first info that is then set is at risk.)                         *)
ClientInfoIsKept ==
  /\ \A n \in InfoNames \ dialog.atRisk : ValueOf(dialog.server.info[n]) = ValueOf(dialog.told[n])
  /\ dialog.did.what = "read" /\ dialog.did.ok /\ dialog.did.name \notin dialog.atRisk =>
       dialog.did.value = ValueOf(dialog.told[dialog.did.name])
  /\ dialog.did.what = "info" /\ dialog.did.name \notin dialog.atRisk => dialog.did.ok

(* getWarnings never shows warnings that were cleared, nor those of an older          *)
(* statement than the last one, of the application or of the driver itself.           *)
WarningsAreCurrent ==
  dialog.did.what = "warnings" /\ dialog.did.of > 0 =>
    dialog.did.of > dialog.cleared /\ dialog.did.of = dialog.executed

(* What the connection's calls tell and do is about the session as it is now:         *)
(* savepoints, client info and warnings, however they are mixed with commits, resets  *)
(* and reconnections.                                                                 *)
DialogIsTrue == RollbackReturns /\ ClientInfoIsKept /\ WarningsAreCurrent
=============================================================================
