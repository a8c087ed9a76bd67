----------------------------- MODULE RowDecoding -----------------------------
(* What the getters of a row make of a column's value, in the binary protocol   *)
(* (protocol/capi/BinRowProtocolCapi.cpp) and in the text protocol              *)
(* (TextRowProtocolCapi.cpp), with the helpers both inherit (com/RowProtocol).  *)
(*                                                                              *)
(* Numbers are counted in halves, so that fractions exist, and widths are       *)
(* scaled: a byte has ByteBits bits, float and double keep FloatBits and        *)
(* DoubleBits significant ones. (long double holds every 8-byte integer.) What  *)
(* a text contains is a class: a number, "false", another word, a date.         *)
EXTENDS Integers, Sequences, SequencesExt

CONSTANTS ByteBits, FloatBits, DoubleBits

\* the order of the real widths: 24 < 31, 53 < 63
ASSUME WidthsAssumption ==
  /\ ByteBits \in Nat \ {0} /\ FloatBits \in Nat /\ DoubleBits \in Nat
  /\ 0 < FloatBits /\ FloatBits < ByteBits * 4 - 1
  /\ FloatBits < DoubleBits /\ DoubleBits < ByteBits * 8 - 1

Modulus(bytes) == 2 ^ (ByteBits * bytes)
IntMin(bytes) == -(Modulus(bytes) \div 2)
IntMax(bytes) == (Modulus(bytes) \div 2) - 1
UIntMax(bytes) == Modulus(bytes) - 1

\* two's complement
AsSigned(n, bytes) == LET m == n % Modulus(bytes) IN IF m > IntMax(bytes) THEN m - Modulus(bytes) ELSE m
AsUnsigned(n, bytes) == n % Modulus(bytes)

Abs(n) == IF n < 0 THEN -n ELSE n
Trunc(half) == IF half < 0 THEN -((-half) \div 2) ELSE half \div 2

(* The nearest number with so many significant bits, ties to even.              *)
Nearest(n, ulp) ==
  LET twice == 2 * (n % ulp)
      up == twice > ulp \/ (twice = ulp /\ (n \div ulp) % 2 = 1)
  IN  (n \div ulp + (IF up THEN 1 ELSE 0)) * ulp
RoundTo(bits, half) ==
  (IF half < 0 THEN -1 ELSE 1)
    * Nearest(Abs(half), 2 ^ (CHOOSE e \in 0..31 : /\ Abs(half) \div (2 ^ e) < 2 ^ bits
                                                   /\ (e = 0 \/ Abs(half) \div (2 ^ (e - 1)) >= 2 ^ bits)))
ToFloat(half) == RoundTo(FloatBits, half)
ToDouble(half) == RoundTo(DoubleBits, half)

-----------------------------------------------------------------------------
(* Columns and outcomes                                                         *)

\* the types as the code switches over them, and the bytes of the integer ones
IntBytes == [TINY |-> 1, SHORT |-> 2, YEAR |-> 2, LONG |-> 4, INT24 |-> 4, LONGLONG |-> 8]
IntTypes == DOMAIN IntBytes
StringTypes == {"VAR_STRING", "VARCHAR", "STRING"}
TemporalTypes == {"DATE", "TIME", "DATETIME", "TIMESTAMP"}
Types == IntTypes \cup StringTypes \cup TemporalTypes
           \cup {"BIT", "FLOAT", "DOUBLE", "DECIMAL", "BLOB"}

\* A column is [type, signed, binary, padded, cell]: binary is the charset of bytes (63), which
\* numbers have too; padded numbers have more than one digit as text ("00", "0.0").
Null == [kind |-> "null"]
Number(half) == [kind |-> "num", half |-> half]
Bytes(s) == [kind |-> "bytes", bytes |-> s]          \* BIT and binary strings
Text(w) == [kind |-> "text", text |-> w]
Temporal(d, t) == [kind |-> "temporal", date |-> d, time |-> t]

IsNull(c) == c.cell.kind = "null"
IsNumber(c) == c.cell.kind = "num"

Val(half) == [k |-> "val", half |-> half]
Whole(n) == Val(2 * n)
Bool(b) == Whole(IF b THEN 1 ELSE 0)
RangeError == [k |-> "range"]           \* SQLException, 22003
TypeError == [k |-> "type"]             \* SQLException
Escaped == [k |-> "escaped"]            \* an exception of the standard library
Undefined == [k |-> "undefined"]        \* a conversion that C++ leaves open: any value

-----------------------------------------------------------------------------
(* Helpers of RowProtocol                                                       *)

(* type >= TINYBLOB: not VARCHAR, which is what a text BLOB is turned into.      *)
NeedsBinaryConversion(c) == c.type \in {"BLOB", "VAR_STRING", "STRING"} /\ c.binary

\* the bytes of a number in the binary protocol
Raw(c) == (c.cell.half \div 2) % Modulus(IntBytes[c.type])

\* plausible slip: the limit of another width
RangeCheckOffByOne(c, bytes, o) ==
  IF o.k # "val" THEN o
  ELSE IF o.half < 2 * IntMin(bytes) \/ o.half > 2 * (IntMax(bytes) + 1) THEN RangeError ELSE o

GetInternalTinyInt(c) == IF c.signed THEN AsSigned(Raw(c), 1) ELSE Raw(c)
GetInternalSmallInt(c) == IF c.signed THEN AsSigned(Raw(c), 2) ELSE Raw(c)
GetInternalMediumInt(c) == IF c.signed THEN AsSigned(Raw(c), 4) ELSE Raw(c)

BigEndian(s) == FoldLeft(LAMBDA acc, b : acc * Modulus(1) + b, 0, s)

(* A single byte is read as a (signed) char.                                    *)
ParseBit(c) ==
  LET s == c.cell.bytes
  IN  IF Len(s) = 1 THEN AsSigned(s[1], 1) ELSE AsSigned(BigEndian(s), 8)

(* Leading zero bytes do not count; the rest has to fit into the type, whose    *)
(* first bit is its sign.                                                       *)
ParseBinaryAsInteger(c, bytes, signed) ==
  LET s == c.cell.bytes
      zeros == {n \in 0..Len(s) : \A i \in 1..n : s[i] = 0}
      rest == SubSeq(s, (CHOOSE n \in zeros : \A m \in zeros : m <= n) + 1, Len(s))
  IN  CASE Len(rest) > bytes -> RangeError
        [] signed -> Whole(AsSigned(BigEndian(rest), bytes))
        [] OTHER -> Whole(BigEndian(rest))

(* rangeCheck, of a value that may be an error already                          *)
RangeCheck(c, bytes, o) ==
  IF o.k # "val" THEN o
  ELSE IF \/ o.half < 0 /\ ~c.signed /\ ~c.binary
          \/ o.half < 2 * IntMin(bytes) \/ o.half > 2 * IntMax(bytes)
       THEN RangeError ELSE o

(* false only for "0" and "false"                                                *)
ConvertStringToBoolean(c) ==
  Bool(CASE IsNumber(c) -> c.cell.half # 0 \/ c.padded
         [] c.cell.kind = "text" -> c.cell.text # "false"
         [] OTHER -> TRUE)

\* static_cast<int64_t> of a floating point value
CastLong(half) == IF Trunc(half) \in IntMin(8)..IntMax(8) THEN Whole(Trunc(half)) ELSE Undefined

\* std::stoll reads the digits a text begins with; std::invalid_argument, std::out_of_range
Stoll(c) ==
  IF IsNumber(c) /\ Trunc(c.cell.half) \in IntMin(8)..IntMax(8) THEN Whole(Trunc(c.cell.half)) ELSE Escaped

(* util/String.cpp: std::stoull wraps negative numbers, which are refused here. *)
Stoull(c) ==
  IF IsNumber(c) /\ Trunc(c.cell.half) \in 0..UIntMax(8) THEN Whole(Trunc(c.cell.half)) ELSE Escaped

\* catch (std::logic_error&)
Caught(o) == IF o.k = "escaped" THEN RangeError ELSE o

-----------------------------------------------------------------------------
(* Binary protocol                                                              *)

BinGetInternalDouble(c) ==
  CASE IsNull(c) -> Whole(0)
    [] c.type = "BIT" -> Whole(ParseBit(c))
    [] c.type = "TINY" -> Whole(GetInternalTinyInt(c))
    [] c.type \in {"SHORT", "YEAR"} -> Whole(GetInternalSmallInt(c))
    [] c.type \in {"LONG", "INT24"} -> Whole(GetInternalMediumInt(c))
    [] c.type = "LONGLONG" -> Whole(IF c.signed THEN AsSigned(Raw(c), 8) ELSE Raw(c))
    [] c.type \in {"FLOAT", "DOUBLE"} -> Val(c.cell.half)
    [] c.type \in StringTypes \cup {"DECIMAL"} ->
         IF IsNumber(c) THEN Val(c.cell.half) ELSE RangeError      \* std::stold
    [] OTHER -> TypeError

(* strtof reports nothing: a text without a number is 0.                        *)
BinGetInternalFloat(c) ==
  CASE IsNull(c) -> Whole(0)
    [] c.type = "BIT" -> Val(ToFloat(2 * ParseBit(c)))
    [] c.type \in IntTypes \cup {"DOUBLE"} -> Val(ToFloat(BinGetInternalDouble(c).half))
    [] c.type = "FLOAT" -> Val(c.cell.half)
    [] c.type \in StringTypes \cup {"DECIMAL"} ->
         IF IsNumber(c) THEN Val(ToFloat(c.cell.half)) ELSE Whole(0)
    [] OTHER -> TypeError

(* The upper limit is tested after its conversion to the type of the value; the *)
(* lower one is not tested.                                                      *)
BinGetInternalLong(c) ==
  CASE IsNull(c) -> Whole(0)
    [] c.type = "BIT" -> Whole(ParseBit(c))
    [] c.type = "TINY" -> Whole(GetInternalTinyInt(c))
    [] c.type \in {"SHORT", "YEAR"} -> Whole(GetInternalSmallInt(c))
    [] c.type \in {"LONG", "INT24"} -> Whole(GetInternalMediumInt(c))
    [] c.type = "LONGLONG" ->
         IF c.signed THEN Whole(AsSigned(Raw(c), 8))
         ELSE IF Raw(c) > IntMax(8) THEN RangeError ELSE Whole(Raw(c))
    [] c.type = "FLOAT" ->
         IF c.cell.half > ToFloat(2 * IntMax(8)) THEN RangeError ELSE CastLong(c.cell.half)
    [] c.type = "DOUBLE" ->
         IF c.cell.half > 2 * IntMax(8) THEN RangeError ELSE CastLong(c.cell.half)
    [] c.type = "DECIMAL" -> Caught(Stoll(c))
    [] c.type \in StringTypes ->
         IF NeedsBinaryConversion(c) THEN ParseBinaryAsInteger(c, 8, TRUE) ELSE Caught(Stoll(c))
    [] OTHER -> TypeError

(* A double is tested against the unsigned limit and converted to the signed    *)
(* type; stoull of a decimal is outside of any try block.                       *)
BinGetInternalULong(c) ==
  CASE IsNull(c) -> Whole(0)
    [] c.type = "BIT" -> Whole(AsUnsigned(ParseBit(c), 8))
    [] c.type \in IntTypes ->
         LET v == IF c.type = "LONGLONG" THEN AsSigned(Raw(c), 8) ELSE BinGetInternalLong(c).half \div 2
         IN  IF c.signed /\ v < 0 THEN RangeError ELSE Whole(AsUnsigned(v, 8))
    [] c.type \in {"FLOAT", "DOUBLE"} ->
         IF c.cell.half < 0 \/ c.cell.half > 2 * UIntMax(8) THEN RangeError
         ELSE IF c.type = "FLOAT" THEN Whole(Trunc(c.cell.half)) ELSE CastLong(c.cell.half)
    [] c.type = "DECIMAL" -> Stoull(c)
    [] c.type \in StringTypes ->
         IF NeedsBinaryConversion(c) THEN ParseBinaryAsInteger(c, 8, FALSE) ELSE Caught(Stoull(c))
    [] OTHER -> TypeError

\* the int64_t that getInternalInt, getInternalShort and getInternalByte check; d is what the
\* function reads a DOUBLE with
BinWideValue(c, d) ==
  CASE c.type = "FLOAT" -> CastLong(BinGetInternalFloat(c).half)
    [] c.type = "DOUBLE" -> CastLong(d.half)
    [] c.type \in StringTypes -> Caught(Stoll(c))
    [] OTHER -> BinGetInternalLong(c)

BinGetInternalInt(c) ==
  CASE IsNull(c) -> Whole(0)
    [] c.type \in {"LONG", "INT24"} /\ c.signed -> Whole(AsSigned(Raw(c), 4))
    [] c.type \in StringTypes /\ NeedsBinaryConversion(c) -> ParseBinaryAsInteger(c, 4, TRUE)
    [] OTHER -> RangeCheck(c, 4, BinWideValue(c, BinGetInternalDouble(c)))

(* SMALLINT is returned as it is, unsigned or not.                              *)
BinGetInternalShort(c) ==
  CASE IsNull(c) -> Whole(0)
    [] c.type \in {"SHORT", "YEAR"} -> Whole(AsSigned(Raw(c), 2))
    [] c.type \in StringTypes /\ NeedsBinaryConversion(c) -> ParseBinaryAsInteger(c, 2, TRUE)
    [] OTHER -> RangeCheck(c, 2, BinWideValue(c, BinGetInternalDouble(c)))

(* So is TINYINT; a DOUBLE is read as a float.                                   *)
BinGetInternalByte(c) ==
  CASE IsNull(c) -> Whole(0)
    [] c.type = "TINY" -> Whole(AsSigned(Raw(c), 1))
    [] c.type \in StringTypes /\ NeedsBinaryConversion(c) -> ParseBinaryAsInteger(c, 1, TRUE)
    [] OTHER -> RangeCheck(c, 1, BinWideValue(c, BinGetInternalFloat(c)))

BinGetInternalBoolean(c) ==
  LET NotZero(o) == IF o.k = "val" THEN Bool(o.half # 0) ELSE o
  IN  CASE IsNull(c) -> Whole(0)
        [] c.type = "LONGLONG" /\ ~c.signed -> NotZero(BinGetInternalULong(c))
        [] c.type \in IntTypes \cup {"BIT", "DECIMAL"} -> NotZero(BinGetInternalLong(c))
        [] c.type \in {"FLOAT", "DOUBLE"} -> NotZero(BinGetInternalDouble(c))
        [] OTHER -> ConvertStringToBoolean(c)

-----------------------------------------------------------------------------
(* Text protocol                                                                *)

(* The lower limit of a floating point value is not tested here either.          *)
TextGetInternalLong(c) ==
  CASE IsNull(c) -> Whole(0)
    [] c.type \in {"FLOAT", "DOUBLE"} ->
         IF c.cell.half > 2 * IntMax(8) THEN RangeError ELSE CastLong(c.cell.half)
    [] c.type = "BIT" -> Whole(ParseBit(c))
    [] c.type \in TemporalTypes -> TypeError
    [] NeedsBinaryConversion(c) -> ParseBinaryAsInteger(c, 8, TRUE)
    [] OTHER -> Caught(Stoll(c))

TextGetInternalULong(c) ==
  CASE IsNull(c) -> Whole(0)
    [] c.type \in {"FLOAT", "DOUBLE"} ->
         IF c.cell.half < 0 \/ c.cell.half > 2 * UIntMax(8) THEN RangeError
         ELSE Whole(Trunc(c.cell.half))
    [] c.type = "BIT" -> Whole(AsUnsigned(ParseBit(c), 8))
    [] c.type \in TemporalTypes -> TypeError
    [] NeedsBinaryConversion(c) -> ParseBinaryAsInteger(c, 8, FALSE)
    [] OTHER -> Caught(Stoull(c))

TextGetInternalInt(c) ==
  CASE IsNull(c) -> Whole(0)
    [] NeedsBinaryConversion(c) -> ParseBinaryAsInteger(c, 4, TRUE)
    [] OTHER -> RangeCheck(c, 4, TextGetInternalLong(c))

TextGetInternalShort(c) ==
  CASE IsNull(c) -> Whole(0)
    [] NeedsBinaryConversion(c) -> ParseBinaryAsInteger(c, 2, TRUE)
    [] OTHER -> RangeCheck(c, 2, TextGetInternalLong(c))

TextGetInternalByte(c) ==
  CASE IsNull(c) -> Whole(0)
    [] NeedsBinaryConversion(c) -> ParseBinaryAsInteger(c, 1, TRUE)
    [] OTHER -> RangeCheck(c, 1, TextGetInternalLong(c))

TextGetInternalFloat(c) ==
  CASE IsNull(c) -> Whole(0)
    [] c.type = "BIT" -> Val(ToFloat(2 * ParseBit(c)))
    [] c.type \in TemporalTypes \cup {"BLOB"} -> TypeError
    [] OTHER -> IF IsNumber(c) THEN Val(ToFloat(c.cell.half)) ELSE RangeError      \* std::stof

(* A stream that finds no number leaves 0 and throws nothing.                    *)
TextGetInternalDouble(c) ==
  CASE IsNull(c) -> Whole(0)
    [] c.type = "BIT" -> Whole(ParseBit(c))
    [] c.type \in TemporalTypes \cup {"BLOB"} -> TypeError
    [] OTHER -> IF IsNumber(c) THEN Val(c.cell.half) ELSE Whole(0)

TextGetInternalBoolean(c) ==
  CASE IsNull(c) -> Whole(0)
    [] c.type = "BIT" -> Bool(ParseBit(c) # 0)
    [] OTHER -> ConvertStringToBoolean(c)
=============================================================================
