------------------------------ MODULE JsonStd ------------------------------
(***************************************************************************)
(* include/JsonStd.h: the serializer every request body and every shown    *)
(* result goes through.  Text is a sequence of character codes (escape     *)
(* works on UTF-8, where every byte of a character above 127 is above 127  *)
(* itself and passes as it is).  A QVariant is a record with its type t    *)
(* and, by type, the number v, the text v, the list v or the map v (a      *)
(* sequence of <<key, value>> pairs in the key order QVariantMap iterates  *)
(* in).  A decimal <<m, e>> is the number m * 10^e, m not a multiple of    *)
(* ten.  Read is a reference reader of JSON, the inverse the serializer is *)
(* checked against; its numbers are decimals.                              *)
(***************************************************************************)
EXTENDS Integers, Sequences, SequencesExt

CONSTANTS
    Significant,    \* the 15 of "%.15g", scaled down
    DoubleDigits,   \* decimal digits a double tells apart (17), scaled down
    LongMax         \* the largest qlonglong, scaled down

ASSUME NumberAssumption ==
    /\ Significant \in Nat \ {0} /\ DoubleDigits \in Nat /\ LongMax \in Nat
    /\ Significant < DoubleDigits /\ 10^DoubleDigits < LongMax

Quote == 34
Comma == 44
Minus == 45
Point == 46
Colon == 58
Backslash == 92
NullText == <<110, 117, 108, 108>>
TrueText == <<116, 114, 117, 101>>
FalseText == <<102, 97, 108, 115, 101>>

HexDigit(d) == IF d < 10 THEN 48 + d ELSE 87 + d

KeepsBackslash(c) == IF c = Quote THEN <<Backslash, Quote>> ELSE <<c>>     \* mutant
\* escape, for one character.
EscapeChar(c) ==
    CASE c = Quote     -> <<Backslash, Quote>>
      [] c = Backslash -> <<Backslash, Backslash>>
      [] c = 10        -> <<Backslash, 110>>
      [] c = 13        -> <<Backslash, 114>>
      [] c = 9         -> <<Backslash, 116>>
      [] c < 32 /\ c \notin {9, 10, 13} ->
           <<Backslash, 117, 48, 48, HexDigit(c \div 16), HexDigit(c % 16)>>
      [] OTHER         -> <<c>>

Escape(s) == FlattenSeq([i \in DOMAIN s |-> EscapeChar(s[i])])

Quoted(s) == <<Quote>> \o Escape(s) \o <<Quote>>

RECURSIVE Digits(_)
Digits(n) == IF n < 10 THEN <<48 + n>> ELSE Append(Digits(n \div 10), 48 + (n % 10))
Number(n) == IF n < 0 THEN <<Minus>> \o Digits(-n) ELSE Digits(n)

\* QVariant::toLongLong: an unsigned value above LongMax wraps.
ToLongLong(n) == ((n + LongMax + 1) % (2 * (LongMax + 1))) - LongMax - 1

\* Decimals: the normal form, and the nearest one of at most n digits.
Size(m) == IF m < 0 THEN -m ELSE m
RECURSIVE Decimal(_, _)
Decimal(m, e) == IF m = 0 THEN <<0, 0>>
                 ELSE IF Size(m) % 10 = 0 THEN Decimal(m \div 10, e + 1) ELSE <<m, e>>
Rounded(d, n) ==
    LET drop == Len(Digits(Size(d[1]))) - n
        half == 5 * 10^(drop - 1)
    IN  IF drop <= 0 THEN d
        ELSE Decimal((IF d[1] < 0 THEN -1 ELSE 1) * ((Size(d[1]) + half) \div 10^drop), d[2] + drop)

Zeros(n) == [i \in 1..n |-> 48]
\* snprintf "%.15g": fixed point, or an exponent of two digits when the value is
\* below 10^-4 or has more digits before the point than are printed.
PrintG(d) ==
    LET r == Rounded(d, Significant)
        digits == Digits(Size(r[1]))
        x == IF r[1] = 0 THEN 0 ELSE Len(digits) - 1 + r[2]      \* decimal exponent
        tail == IF Len(digits) > 1 THEN <<Point>> \o Tail(digits) ELSE <<>>
        power == Digits(Size(x))
    IN  (IF r[1] < 0 THEN <<Minus>> ELSE <<>>) \o
        CASE x < -4 \/ x >= Significant ->
               <<digits[1]>> \o tail \o <<101, IF x < 0 THEN Minus ELSE 43>>
                 \o Zeros(2 - Len(power)) \o power
          [] x \in -4..-1 -> <<48, Point>> \o Zeros(-x - 1) \o digits
          [] x \in 0..(Significant - 1) /\ r[2] < 0 ->
               SubSeq(digits, 1, x + 1) \o <<Point>> \o SubSeq(digits, x + 2, Len(digits))
          [] OTHER -> digits \o Zeros(r[2])

\* The text between the brackets: the parts, separated by commas.
Joined(parts) ==
    FlattenSeq([i \in DOMAIN parts |-> IF i > 1 THEN <<Comma>> \o parts[i] ELSE parts[i]])

RECURSIVE VariantToJson(_)
VariantToJson(v) ==
    CASE v.t = "null"   -> NullText
      [] v.t = "bool"   -> IF v.v = 1 THEN TrueText ELSE FalseText
      [] v.t = "int"    -> Number(ToLongLong(v.v))      \* the four integer types
      [] v.t = "double" -> PrintG(v.v)
      [] v.t = "list"   -> <<91>> \o Joined([i \in DOMAIN v.v |-> VariantToJson(v.v[i])]) \o <<93>>
      [] v.t = "map"    -> <<123>> \o Joined([i \in DOMAIN v.v |->
                                Quoted(v.v[i][1]) \o <<Colon>> \o VariantToJson(v.v[i][2])]) \o <<125>>
      [] OTHER          -> Quoted(v.v)                  \* String, and toString() of the rest

-----------------------------------------------------------------------------
(* Reference: what a JSON reader makes of a text.  A reading is the value and  *)
(* the position after it; position 0 is a syntax error.                        *)

Failed == [v |-> [t |-> "null"], next |-> 0]
At(s, i) == IF i \in DOMAIN s THEN s[i] ELSE 0
HexValue(c) == IF c < 58 THEN c - 48 ELSE c - 87

RECURSIVE ReadChars(_, _, _)
ReadChars(s, i, acc) ==
    LET c == At(s, i)
        n == At(s, i + 1)
    IN  CASE c = Quote -> [v |-> [t |-> "string", v |-> acc], next |-> i + 1]
          [] c = Backslash /\ n \in {Quote, Backslash} -> ReadChars(s, i + 2, Append(acc, n))
          [] c = Backslash /\ n \in {110, 114, 116} ->
               ReadChars(s, i + 2, Append(acc, IF n = 110 THEN 10 ELSE IF n = 114 THEN 13 ELSE 9))
          [] c = Backslash /\ n = 117 ->
               ReadChars(s, i + 6, Append(acc, 16 * HexValue(At(s, i + 4)) + HexValue(At(s, i + 5))))
          [] c >= 32 /\ c \notin {Quote, Backslash} -> ReadChars(s, i + 1, Append(acc, c))
          [] OTHER -> Failed

RECURSIVE ReadDigits(_, _, _)
ReadDigits(s, i, acc) ==
    IF At(s, i) \in 48..57 THEN ReadDigits(s, i + 1, 10 * acc + At(s, i) - 48)
    ELSE [n |-> acc, next |-> i]

\* A number: sign, digits, and a fraction and an exponent if there are any.
ReadNumber(s, start) ==
    LET i == IF At(s, start) = Minus THEN start + 1 ELSE start
        whole == ReadDigits(s, i, 0)
        point == At(s, whole.next) = Point
        all == IF point THEN ReadDigits(s, whole.next + 1, whole.n) ELSE whole
        fraction == IF point THEN all.next - whole.next - 1 ELSE 0
        scientific == At(s, all.next) = 101
        power == ReadDigits(s, all.next + 2, 0)
        e == IF ~scientific THEN 0 ELSE IF At(s, all.next + 1) = Minus THEN -power.n ELSE power.n
    IN  [v |-> [t |-> "number", v |-> Decimal(IF i = start THEN all.n ELSE -all.n, e - fraction)],
         next |-> IF scientific THEN power.next ELSE all.next]

\* What follows an element of a list or map: another one, the closing bracket or
\* an error.  r is the reading of the element.
RECURSIVE ReadValue(_, _), ReadItems(_, _, _), ReadFields(_, _, _)
ReadItems(s, i, acc) == CHOOSE reading \in
    {CASE r.next # 0 /\ At(s, r.next) = Comma -> ReadItems(s, r.next + 1, Append(acc, r.v))
       [] r.next # 0 /\ At(s, r.next) = 93 ->
            [v |-> [t |-> "list", v |-> Append(acc, r.v)], next |-> r.next + 1]
       [] OTHER -> Failed : r \in {ReadValue(s, i)}} : TRUE
ReadFields(s, i, acc) == CHOOSE reading \in
    UNION {{CASE r.next # 0 /\ At(s, r.next) = Comma ->
                   ReadFields(s, r.next + 1, Append(acc, <<k.v.v, r.v>>))
              [] r.next # 0 /\ At(s, r.next) = 125 ->
                   [v |-> [t |-> "map", v |-> Append(acc, <<k.v.v, r.v>>)], next |-> r.next + 1]
              [] OTHER -> Failed :
              r \in {IF k.next # 0 /\ At(s, k.next) = Colon THEN ReadValue(s, k.next + 1) ELSE Failed}} :
           k \in {IF At(s, i) = Quote THEN ReadChars(s, i + 1, <<>>) ELSE Failed}} : TRUE
ReadValue(s, i) ==
    CASE At(s, i) = 110 -> [v |-> [t |-> "null"], next |-> i + 4]
      [] At(s, i) = 116 -> [v |-> [t |-> "bool", v |-> 1], next |-> i + 4]
      [] At(s, i) = 102 -> [v |-> [t |-> "bool", v |-> 0], next |-> i + 5]
      [] At(s, i) = Quote -> ReadChars(s, i + 1, <<>>)
      [] At(s, i) = Minus \/ At(s, i) \in 48..57 -> ReadNumber(s, i)
      [] At(s, i) = 91 -> IF At(s, i + 1) = 93
                          THEN [v |-> [t |-> "list", v |-> <<>>], next |-> i + 2]
                          ELSE ReadItems(s, i + 1, <<>>)
      [] At(s, i) = 123 -> IF At(s, i + 1) = 125
                           THEN [v |-> [t |-> "map", v |-> <<>>], next |-> i + 2]
                           ELSE ReadFields(s, i + 1, <<>>)
      [] OTHER -> Failed

\* parseObject: the whole text must be one JSON object.
Read(s) == LET r == ReadValue(s, 1)
           IN  IF r.next = Len(s) + 1 THEN r.v ELSE [t |-> "error"]
ParseObject(s) == LET v == Read(s) IN IF v.t = "map" THEN v ELSE [t |-> "error"]
=============================================================================
