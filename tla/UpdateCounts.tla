---------------------------- MODULE UpdateCounts ----------------------------
(***************************************************************************)
(* What a command changed: CmdInformationSingle, CmdInformationMultiple    *)
(* and CmdInformationBatch, as a record and operators on it.               *)
(*                                                                         *)
(*   kind      "single", "multiple" or "batch"                             *)
(*   counts    updateCounts, one per answer of the server                  *)
(*   ids       insertIds, one per successful answer                        *)
(*   idx       moreResultsIdx, the answer the application looks at         *)
(*   failed    hasException                                                *)
(*   expected  expectedSize; rewritten as the code's                       *)
(***************************************************************************)
EXTENDS Integers, Sequences

(* CmdInformation::RESULT_SET_VALUE, Statement::SUCCESS_NO_INFO and        *)
(* Statement::EXECUTE_FAILED.                                              *)
RESULT_SET_VALUE == -1
SUCCESS_NO_INFO == -2
EXECUTE_FAILED == -3

NoInformation == [kind |-> "none"]

NewInformation(k, size) ==
  [kind |-> k, counts |-> <<>>, ids |-> <<>>, idx |-> 0,
   failed |-> FALSE, expected |-> size, rewritten |-> FALSE]

(* CmdInformationSingle's constructor.                                     *)
SingleInformation(insertId, updateCount) ==
  [NewInformation("single", 1) EXCEPT !.counts = <<updateCount>>, !.ids = <<insertId>>]

(* addSuccessStat, addErrorStat, addResultSetStat: nothing for a single    *)
(* answer, which its constructor was told.                                 *)
AddSuccessStat(i, updateCount, insertId) ==
  IF i.kind = "single" THEN i
  ELSE [i EXCEPT !.counts = Append(@, updateCount), !.ids = Append(@, insertId)]

AddErrorStat(i) ==
  IF i.kind = "single" THEN i
  ELSE [i EXCEPT !.counts = Append(@, EXECUTE_FAILED), !.failed = TRUE]

AddResultSetStat(i) ==
  IF i.kind = "single" THEN i ELSE [i EXCEPT !.counts = Append(@, RESULT_SET_VALUE)]

(* getUpdateCount: of the answer looked at, the first one for a batch.     *)
GetUpdateCount(i) ==
  LET k == IF i.kind = "multiple" THEN i.idx + 1 ELSE 1
  IN  IF k <= Len(i.counts) THEN i.counts[k] ELSE -1

(* isCurrentUpdateCount, moreResults.                                      *)
IsCurrentUpdateCount(i) ==
  i.kind # "batch" /\ GetUpdateCount(i) # RESULT_SET_VALUE

AfterMoreResults(i) ==
  CASE i.kind = "single" -> [i EXCEPT !.counts = <<RESULT_SET_VALUE>>]
    [] i.kind = "multiple" -> [i EXCEPT !.idx = @ + 1]
    [] OTHER -> i

MoreResults(i) ==
  /\ i.kind = "multiple"
  /\ i.idx + 1 < Len(i.counts)
  /\ i.counts[i.idx + 2] = RESULT_SET_VALUE

(* CmdInformationBatch::getUpdateCounts: as many counts as there were sets *)
(* of parameters, whatever number of statements carried them.              *)
GetUpdateCounts(i) ==
  LET one == CASE i.failed -> EXECUTE_FAILED
               [] ~i.failed /\ i.expected = 1 -> i.counts[1]
               [] OTHER -> IF \E k \in DOMAIN i.counts : i.counts[k] # 0
                           THEN SUCCESS_NO_INFO ELSE 0
      missing == IF i.expected > Len(i.counts) THEN i.expected - Len(i.counts) ELSE 0
  IN  IF i.rewritten
      THEN [k \in 1 .. i.expected |-> one]
      ELSE i.counts \o [k \in 1 .. missing |-> EXECUTE_FAILED]
=============================================================================
