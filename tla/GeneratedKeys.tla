---------------------------- MODULE GeneratedKeys ----------------------------
(***************************************************************************)
(* The keys an INSERT made: what the server tells of it (the first id and  *)
(* the number of rows), what the driver knows of the step between two ids, *)
(* and the keys getGeneratedKeys makes up of both.                         *)
(*                                                                         *)
(*   step, known    auto_increment_increment of the session, and           *)
(*                  autoIncrementIncrement of the protocol                 *)
(*   next           the id the table gives out next; id 1 is there before  *)
(*   statement      the last INSERT: its text behind the 17th character as *)
(*                  words and blanks, whether it has the clause ON         *)
(*                  DUPLICATE KEY UPDATE, and whether keys were asked for  *)
(*   made, touched  the ids it made, in order, and those it updated        *)
(*   info           CmdInformation of it; fair: known was step             *)
(*   keys, how      what getGeneratedKeys returned, and how it ended       *)
(***************************************************************************)
EXTENDS UpdateCounts, SequencesExt

CONSTANTS InsertTexts, \* set of [words, clause]
          Steps,       \* values of auto_increment_increment
          MaxInsert,   \* rows of one INSERT, statements of one batch
          MaxId        \* bound of next

ASSUME StepsAssumption == 1 \in Steps /\ Steps \subseteq Nat \ {0}
ASSUME InsertBoundsAssumption == MaxInsert \in Nat /\ MaxId \in Nat

VARIABLE inserts

NoStatement == [words |-> <<>>, clause |-> FALSE, asked |-> FALSE]
InsertsInit ==
  \E tracked \in BOOLEAN :
    inserts = [tracked |-> tracked, step |-> 1, known |-> 1, next |-> 2, statement |-> NoStatement, made |-> <<>>,
               touched |-> {}, info |-> NoInformation, fair |-> TRUE, keys |-> <<>>, how |-> "nothing"]

-----------------------------------------------------------------------------
(* isDuplicateKeyUpdate.  A word has a length, and the scan looks at an o  *)
(* only as long as the whole clause may follow.  "from" stands for every   *)
(* word with an o that is not ON, "x" for a text without one.              *)
WordLength(w) == CASE w = " " -> 1
                   [] w \in {"ON", "on"} -> 2
                   [] w \in {"KEY", "key"} -> 3
                   [] w = "from" -> 4
                   [] w \in {"UPDATE", "update"} -> 6
                   [] w \in {"DUPLICATE", "duplicate"} -> 9
                   [] OTHER -> 12
Room(words, i) == FoldSeq(LAMBDA w, n : n + WordLength(w), 0, SubSeq(words, i, Len(words)))
RoomAtO(words, i) == Room(words, i) - (IF words[i] = "from" THEN 2 ELSE 0)

\* the first place from i on with one of the words, or with no blank; behind the end if there is none
Least(words, at) == IF at = {} THEN Len(words) + 1 ELSE CHOOSE j \in at : \A k \in at : j <= k
First(words, i, wanted) == Least(words, {j \in i .. Len(words) : words[j] \in wanted})
NotBlank(words, i) == Least(words, {j \in i .. Len(words) : words[j] # " "})
WordIs(words, i, allowed) == i <= Len(words) /\ words[i] \in allowed

(* Mutant: the clause is looked for behind the first ON only.              *)
IsDuplicateKeyUpdateAtOnce(words) ==
  LET o == First(words, 1, {"ON", "on"})
      d == NotBlank(words, o + 1)
  IN  IF WordIs(words, d, {"DUPLICATE"}) THEN "yes" ELSE "no"

(* The letters of DUPLICATE are compared with "DUPLa" in small letters, so *)
(* that only the I in capitals fits.  Where a word does not fit the scan   *)
(* goes on with it; but behind an o that is no ON it starts at the same    *)
(* place again, for ever.                                                  *)
IsDuplicateKeyUpdate(words) ==
  LET Found[i \in 1 .. Len(words) + 1] ==
        LET o == First(words, i, {"ON", "on", "from"})
            d == NotBlank(words, o + 1)
            k == NotBlank(words, d + 1)
            u == NotBlank(words, k + 1)
        IN  CASE o > Len(words) -> "no"
              [] o <= Len(words) /\ RoomAtO(words, o) < 23 -> "no"
              [] o <= Len(words) /\ RoomAtO(words, o) >= 23 /\ ~(words[o] # "from" /\ words[o + 1] = " ") -> "never"
              [] OTHER ->
                   CASE Room(words, d) < 20 -> "no"
                     [] Room(words, d) >= 20 /\ words[d] # "DUPLICATE" -> Found[d]
                     [] Room(words, d) >= 20 /\ words[d] = "DUPLICATE" ->
                          CASE Room(words, k) < 10 -> "no"
                            [] Room(words, k) >= 10 /\ ~WordIs(words, k, {"KEY", "key"}) -> Found[k]
                            [] OTHER -> IF Room(words, u) < 6 THEN "no"
                                        ELSE IF WordIs(words, u, {"UPDATE", "update"}) THEN "yes" ELSE Found[u]
  IN  Found[1]

-----------------------------------------------------------------------------
(* createGeneratedData: a row for each id that is not 0.                   *)
CreateGeneratedData(ids) == SelectSeq(ids, LAMBDA id : id # 0)

(* CmdInformationSingle::getGeneratedKeys.                                 *)
KeysOfSingle(info, words, known) ==
  LET insertId == info.ids[1]
      updateCount == info.counts[1]
      each == updateCount > 1 /\ IsDuplicateKeyUpdate(words) = "no"
  IN  IF insertId = 0 THEN <<>>
      ELSE CreateGeneratedData(IF each THEN [k \in 1 .. updateCount |-> insertId + (k - 1) * known] ELSE <<insertId>>)

(* getGeneratedKeys and getBatchGeneratedKeys of several answers: the keys *)
(* are assigned behind the end of a vector that has room for them and no   *)
(* elements, and has none afterwards.                                      *)
KeysOfMultiple(info) == CreateGeneratedData(<<>>)
KeysOfBatch(info) == CreateGeneratedData(<<>>)

-----------------------------------------------------------------------------
(* SET auto_increment_increment.  A session that tracks the variable tells *)
(* of it, and handleStateChange reads a number from the variable's name:   *)
(* the call throws and the protocol learns nothing.                        *)
SetStep(n, asked) ==
  /\ n # inserts.step
  /\ inserts' = [inserts EXCEPT
       !.step = n, !.statement = [NoStatement EXCEPT !.asked = asked], !.made = <<>>, !.touched = {}, !.keys = <<>>,
       !.info = IF inserts.tracked THEN NoInformation ELSE SingleInformation(0, 0),
       !.how = IF inserts.tracked THEN "thrown" ELSE "nothing"]

(* COM_RESET_CONNECTION puts the session's variable back.                  *)
ResetStep ==
  /\ inserts.step # 1
  /\ inserts' = [inserts EXCEPT !.step = 1]

(* One INSERT of rows that are new or there already.  The server tells the *)
(* first id it made, or that of the row it updated, and counts an updated  *)
(* row twice; a table without AUTO_INCREMENT has no ids.                   *)
Insert(text, new, dup, auto, asked) ==
  LET ids == IF auto THEN [k \in 1 .. new |-> inserts.next + (k - 1) * inserts.step] ELSE <<>>
      insertId == IF ~auto THEN 0 ELSE IF new > 0 THEN ids[1] ELSE 1
  IN  /\ new + dup \in 1 .. MaxInsert /\ (dup > 0 => text.clause)
      /\ inserts.next + new * inserts.step <= MaxId
      /\ inserts' = [inserts EXCEPT
           !.statement = [words |-> text.words, clause |-> text.clause, asked |-> asked],
           !.made = ids, !.touched = IF dup > 0 /\ auto THEN {1} ELSE {},
           !.next = IF auto THEN @ + new * inserts.step ELSE @,
           !.info = SingleInformation(insertId, new + 2 * dup),
           !.fair = inserts.known = inserts.step, !.keys = <<>>, !.how = "nothing"]

(* Several INSERTs of a row each, in one text or as a batch.               *)
InsertSeveral(kind, n, asked) ==
  LET ids == [k \in 1 .. n |-> inserts.next + (k - 1) * inserts.step]
  IN  /\ inserts.next + n * inserts.step <= MaxId
      /\ inserts' = [inserts EXCEPT
           !.statement = [NoStatement EXCEPT !.asked = asked], !.made = ids, !.touched = {},
           !.next = @ + n * inserts.step,
           !.info = FoldSeq(LAMBDA id, i : AddSuccessStat(i, 1, id), NewInformation(kind, n), ids),
           !.fair = inserts.known = inserts.step, !.keys = <<>>, !.how = "nothing"]

(* Results::getGeneratedKeys.                                              *)
GetGeneratedKeys ==
  /\ inserts.how \in {"nothing", "thrown"}
  /\ LET info == inserts.info
         words == inserts.statement.words
         endless == info.kind = "single" /\ info.ids[1] # 0 /\ info.counts[1] > 1 /\ IsDuplicateKeyUpdate(words) = "never"
         keys == CASE info.kind = "none" -> <<>>
                   [] info.kind = "single" -> KeysOfSingle(info, words, inserts.known)
                   [] info.kind = "multiple" -> KeysOfMultiple(info)
                   [] info.kind = "batch" -> KeysOfBatch(info)
     IN  inserts' = CASE ~inserts.statement.asked -> [inserts EXCEPT !.how = "refused"]
                      [] inserts.statement.asked /\ endless -> [inserts EXCEPT !.how = "never"]
                      [] OTHER -> [inserts EXCEPT !.how = "returned", !.keys = keys]

InsertsNext ==
  /\ inserts.how # "never"
  /\ \/ \E n \in Steps, asked \in BOOLEAN : SetStep(n, asked)
     \/ ResetStep
     \/ \E text \in InsertTexts, new, dup \in 0 .. MaxInsert, auto, asked \in BOOLEAN : Insert(text, new, dup, auto, asked)
     \/ \E kind \in {"multiple", "batch"}, n \in 1 .. MaxInsert, asked \in BOOLEAN : InsertSeveral(kind, n, asked)
     \/ GetGeneratedKeys

-----------------------------------------------------------------------------
(* The keys that come back for one INSERT are those it made, all of them   *)
(* and in order, whatever stands in its text before or behind the clause;  *)
(* with the clause every key belongs to a row that was made or updated,    *)
(* although an updated row counts twice.  Left out: a step the protocol    *)
(* does not know of, and the clause with a small i, which is not found.    *)
KeysAreTheInserts ==
  inserts.how = "returned" /\ inserts.info.kind = "single" /\ inserts.fair /\ ~Contains(inserts.statement.words, "duplicate") =>
    IF inserts.statement.clause
    THEN \A k \in DOMAIN inserts.keys : inserts.keys[k] \in inserts.touched \cup ToSet(inserts.made)
    ELSE inserts.keys = inserts.made
==============================================================================
