-------------------------- MODULE TemporalDecoding --------------------------
(* Dates, times and strings of a row, in both protocols, and the two bits that  *)
(* wasNull() answers from: BIT_LAST_FIELD_NULL, which setPosition sets, and     *)
(* BIT_LAST_ZERO_DATE, which the getters add and sometimes take back.           *)
(*                                                                              *)
(* A temporal cell has a date ("zero", "short": a year below 1000, "full" or    *)
(* "none") and a time ("zero", "clock" or "none"). A text is what it shows of   *)
(* both; "cut" is a substring taken at the wrong place.                         *)
EXTENDS RowDecoding, FiniteSets

Shown(d, t) == [k |-> "text", date |-> d, time |-> t]
Raw2Text(c) == IF c.cell.kind = "temporal" THEN Shown(c.cell.date, c.cell.time) ELSE [k |-> "raw"]
Empty == [k |-> "empty"]

\* what a getter returns, and lastValueNull after it
Got(o, bits) == [out |-> o, bits |-> bits]
FieldNull == {"NULL"}
ZeroDate == {"ZERO"}
Failed == Got(TypeError, {})

WasNull(bits) == bits # {}

IsTemporal(c) == c.cell.kind = "temporal"
IsZero(c) == IsTemporal(c) /\ c.cell.date \in {"zero", "none"} /\ c.cell.time \in {"zero", "none"}

-----------------------------------------------------------------------------
(* Binary protocol: MYSQL_TIME, with zeros for the half a type does not have     *)

IsNullTimeStruct(c, type) ==
  CASE type = "DATE" -> c.cell.date \in {"zero", "none"}
    [] type \in {"TIMESTAMP", "DATETIME"} -> IsZero(c)
    [] OTHER -> FALSE

MakeStringFromTimeStruct(c, type) ==
  Shown(IF type = "TIME" THEN "none" ELSE c.cell.date,
        IF type = "DATE" THEN "none" ELSE IF c.cell.time = "none" THEN "zero" ELSE c.cell.time)

(* A string is a null date only if it is exactly nullDate.                      *)
BinGetInternalDate(c) ==
  CASE IsNull(c) -> Got(Shown("zero", "none"), FieldNull)
    [] c.type \in {"TIMESTAMP", "DATETIME", "DATE"} ->
         IF IsNullTimeStruct(c, "DATE") THEN Got(Shown("zero", "none"), ZeroDate)
         ELSE Got(MakeStringFromTimeStruct(c, "DATE"), {})
    [] c.type = "STRING" ->
         Got(Raw2Text(c), IF c.cell = Temporal("zero", "none") THEN ZeroDate ELSE {})
    [] c.type = "YEAR" -> Got(Shown("full", "none"), {})
    [] OTHER -> Failed

(* TIME itself is not among the types this getter knows.                        *)
BinGetInternalTime(c) ==
  CASE IsNull(c) -> Got(Shown("none", "zero"), FieldNull)
    [] c.type \in {"TIMESTAMP", "DATETIME"} -> Got(MakeStringFromTimeStruct(c, "TIME"), {})
    [] c.type = "STRING" ->
         Got(Raw2Text(c), IF c.cell = Temporal("none", "zero") THEN ZeroDate ELSE {})
    [] OTHER -> Failed

(* A time is put on the first of January 1970; a zero one is a zero date.       *)
BinGetInternalTimestamp(c) ==
  CASE IsNull(c) -> Got(Shown("zero", "zero"), FieldNull)
    [] c.type \in TemporalTypes ->
         IF IsNullTimeStruct(c, "TIMESTAMP") THEN Got(Shown("zero", "zero"), ZeroDate)
         ELSE IF c.type = "TIME" THEN Got(Shown("full", c.cell.time), {})
         ELSE Got(MakeStringFromTimeStruct(c, "TIMESTAMP"), {})
    [] c.type \in {"VAR_STRING", "STRING"} ->
         IF c.cell \in {Temporal("zero", "zero"), Temporal("none", "zero")}
         THEN Got(Shown("zero", "zero"), ZeroDate) ELSE Got(Raw2Text(c), {})
    [] OTHER -> Failed

BinGetInternalTimeString(c) == IF IsNull(c) THEN Empty ELSE MakeStringFromTimeStruct(c, "TIME")

BinConvertToString(c) ==
  CASE IsNull(c) -> Got(Empty, FieldNull)
    [] c.type = "TIME" -> Got(BinGetInternalTimeString(c), {})
    [] c.type = "DATE" ->
         LET g == BinGetInternalDate(c)
         IN  IF g.out = Shown("zero", "none") THEN Got(Empty, g.bits) ELSE g
    [] c.type \in {"TIMESTAMP", "DATETIME"} -> BinGetInternalTimestamp(c)
    [] OTHER -> Got(Raw2Text(c), {})

-----------------------------------------------------------------------------
(* Text protocol                                                                *)

(* isDate tests the character of the dash once more, for a digit: never true.    *)
IsDate(c) == FALSE

\* [-]H+:M{1,2}:S{0,2}, from the first character on
ParseTime(c) == IsTemporal(c) /\ c.cell.date = "none"

(* Digits, with separators anywhere: a number is a timestamp, too.               *)
TextGetInternalTimestamp(c) ==
  CASE IsNull(c) -> Got(Shown("zero", "zero"), FieldNull)
    [] c.type = "TIME" -> Got(Shown("full", c.cell.time), {})
    [] c.type \in {"TIMESTAMP", "DATETIME", "DATE"} \cup StringTypes ->
         CASE IsZero(c) \/ (IsNumber(c) /\ c.cell.half = 0) -> Got(Shown("zero", "zero"), ZeroDate)
           [] IsTemporal(c) /\ c.cell.date # "none" ->
                Got(Shown(c.cell.date, IF c.cell.time = "none" THEN "zero" ELSE c.cell.time), {})
           [] IsTemporal(c) \/ IsNumber(c) -> Got(Shown("cut", "cut"), {})
           [] OTHER -> Failed
    [] OTHER -> Failed

\* the year was printed with less than four digits (nullTs is not printed but a constant)
ShortYear(g) == g.bits = {} /\ g.out.date \in {"short", "zero"}

TextGetInternalDate(c) ==
  CASE IsNull(c) -> Got(Shown("zero", "none"), FieldNull)
    [] c.type = "DATE" ->
         IF IsZero(c) THEN Got(Shown("zero", "none"), ZeroDate) ELSE Got(Shown(c.cell.date, "none"), {})
    [] c.type \in {"TIMESTAMP", "DATETIME"} ->
         LET g == TextGetInternalTimestamp(c)      \* the first 10 characters
         IN  Got(Shown(IF ShortYear(g) THEN "cut" ELSE g.out.date, "none"), g.bits)
    [] c.type = "YEAR" -> Got(Shown("full", "none"), {})
    [] IsDate(c) -> Got(Shown(c.cell.date, "none"), {})
    [] OTHER -> Failed

TextGetInternalTime(c) ==
  CASE IsNull(c) -> Got(Shown("none", "zero"), FieldNull)
    [] c.type \in {"TIMESTAMP", "DATETIME"} ->
         LET g == TextGetInternalTimestamp(c)      \* from character 11 on
         IN  Got(Shown("none", IF ShortYear(g) THEN "cut" ELSE g.out.time), g.bits)
    [] c.type # "DATE" /\ ParseTime(c) -> Got(Shown("none", c.cell.time), {})
    [] OTHER -> Failed

TextGetInternalTimeString(c) == IF IsNull(c) THEN Empty ELSE Raw2Text(c)

(* A zero date keeps its text and its bit is taken back; nullTs is not empty, so *)
(* that never happens to a zero timestamp.                                      *)
TextGetInternalString(c) ==
  CASE IsNull(c) -> Got(Empty, FieldNull)
    [] c.type = "TIME" -> Got(TextGetInternalTimeString(c), {})
    [] c.type = "DATE" ->
         LET g == TextGetInternalDate(c)
         IN  IF g.bits = ZeroDate THEN Got(Raw2Text(c), {}) ELSE g
    [] c.type \in {"TIMESTAMP", "DATETIME"} -> TextGetInternalTimestamp(c)
    [] OTHER -> Got(Raw2Text(c), {})

-----------------------------------------------------------------------------
(* The fraction of a second: second_part counts units of 1 / 10^Digits.          *)

CONSTANT Digits
ASSUME DigitsAssumption == Digits \in Nat \ {0}

DecimalLength(n) == CHOOSE l \in 1..Digits : n < 10 ^ l /\ (l = 1 \/ n >= 10 ^ (l - 1))

\* the zeros and the digits that are printed after the point
FractionPadding(part, decimals) ==
  LET missing == Digits - DecimalLength(part) IN IF decimals < missing THEN decimals ELSE missing

FractionLength(part, decimals) == FractionPadding(part, decimals) + DecimalLength(part)
=============================================================================
