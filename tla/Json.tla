------------------------------- MODULE Json -------------------------------
(***************************************************************************)
(* The JSON reader and writer of the kernel                                *)
(* (src/include/ow/detail/minjson.hpp).  A text is a sequence of bytes;    *)
(* a value is a record whose `type' names its Type, and an object is a     *)
(* sequence of members, in order and with repetitions, as json::Object.    *)
(*                                                                         *)
(* A parsing function takes a position (counted from 1) and a depth and    *)
(* returns [ok, pos, depth, val]; an error is ok = FALSE, its message is   *)
(* left out.  A number with a point or an exponent is read as a fraction   *)
(* n / d; it becomes an integer if it is one no larger than MaxIntegral    *)
(* (2^53 in the code).  Other integers are unbounded here: what strtoll    *)
(* does beyond 64 bits is left out.                                        *)
(***************************************************************************)
EXTENDS Integers, SequencesExt

CONSTANTS kMaxDepth, MaxIntegral

Quote == 34
Backslash == 92
Comma == 44
Colon == 58
OpenArray == 91
CloseArray == 93
OpenObject == 123
CloseObject == 125

Null      == [type |-> "null"]
Bool(b)   == [type |-> "bool", b |-> b]
Int_(i)   == [type |-> "int", i |-> i]
Str(s)    == [type |-> "string", s |-> s]
Arr(a)    == [type |-> "array", a |-> a]
Obj(o)    == [type |-> "object", o |-> o]

IsIntegral(n, d) == n % d = 0 /\ n \div d \in -MaxIntegral .. MaxIntegral

\* Value(double): dbl_ keeps its initial value 0 whatever the argument is.
Double(n, d) ==
    IF IsIntegral(n, d) THEN Int_(n \div d) ELSE [type |-> "double", n |-> 0, d |-> 1]

\* Value::Find: the first member of that name, or none.
Find(v, key) ==
    IF v.type # "object" THEN <<>>
    ELSE LET at == {i \in 1 .. Len(v.o) : v.o[i][1] = key}
         IN IF at = {} THEN <<>>
            ELSE <<v.o[CHOOSE i \in at : \A j \in at : i <= j][2]>>

AsInt(v, def) == CASE v.type = "int"    -> v.i
                   [] v.type = "double" -> v.n \div v.d
                   [] OTHER             -> def

\* As a fraction.
AsDouble(v) == CASE v.type = "double" -> <<v.n, v.d>>
                 [] v.type = "int"    -> <<v.i, 1>>
                 [] OTHER             -> <<0, 1>>

(***************************************************************************)
(* Serialize                                                               *)
(***************************************************************************)
Named == (34 :> 34) @@ (92 :> 92) @@ (8 :> 98) @@ (12 :> 102)
         @@ (10 :> 110) @@ (13 :> 114) @@ (9 :> 116)

HexDigit(n) == IF n < 10 THEN 48 + n ELSE 87 + n

ControlEscape(c) == <<Backslash, 117, 48, 48, HexDigit(c \div 16), HexDigit(c % 16)>>

\* Fault: the backslash itself is not escaped.
EscapeByteNoBackslash(c) ==
    CASE c \in DOMAIN Named \ {92} -> <<Backslash, Named[c]>>
      [] c < 32 -> ControlEscape(c)
      [] OTHER -> <<c>>

EscapeByte(c) ==
    CASE c \in DOMAIN Named -> <<Backslash, Named[c]>>
      [] c < 32 -> ControlEscape(c)
      [] OTHER -> <<c>>

WriteEscaped(s) ==
    <<Quote>> \o FlattenSeq([i \in 1 .. Len(s) |-> EscapeByte(s[i])]) \o <<Quote>>

RECURSIVE Digits(_)
Digits(n) == IF n < 10 THEN <<48 + n>> ELSE Append(Digits(n \div 10), 48 + (n % 10))

Decimal(i) == IF i < 0 THEN <<45>> \o Digits(-i) ELSE Digits(i)

\* The parts of a container, separated by commas.
Joined(parts) ==
    FlattenSeq([i \in 1 .. Len(parts) |->
                   IF i = 1 THEN parts[i] ELSE <<Comma>> \o parts[i]])

RECURSIVE Write(_)
Write(v) ==
    CASE v.type = "null"   -> <<110, 117, 108, 108>>
      [] v.type = "bool"   -> IF v.b THEN <<116, 114, 117, 101>>
                                     ELSE <<102, 97, 108, 115, 101>>
      [] v.type = "int"    -> Decimal(v.i)
      [] v.type = "double" -> Decimal(v.n)          \* %.15g of a dbl_ that is 0
      [] v.type = "string" -> WriteEscaped(v.s)
      [] v.type = "array"  ->
            <<OpenArray>> \o Joined([i \in 1 .. Len(v.a) |-> Write(v.a[i])])
            \o <<CloseArray>>
      [] v.type = "object" ->
            <<OpenObject>>
            \o Joined([i \in 1 .. Len(v.o) |->
                          WriteEscaped(v.o[i][1]) \o <<Colon>> \o Write(v.o[i][2])])
            \o <<CloseObject>>

(***************************************************************************)
(* Parse                                                                   *)
(***************************************************************************)
Failed == [ok |-> FALSE, pos |-> 0, depth |-> 0, val |-> Null]
Done(pos, depth, val) == [ok |-> TRUE, pos |-> pos, depth |-> depth, val |-> val]

RECURSIVE SkipWs(_, _)
SkipWs(t, pos) ==
    IF pos <= Len(t) /\ t[pos] \in {32, 9, 10, 13} THEN SkipWs(t, pos + 1) ELSE pos

At(t, pos, c) == pos <= Len(t) /\ t[pos] = c

Literal(t, pos, depth, lit, val) ==
    IF SubSeq(t, pos, pos + Len(lit) - 1) = lit
    THEN Done(pos + Len(lit), depth, val) ELSE Failed

IsDigit(c) == c \in 48 .. 57

\* The end of the run of bytes ParseNumber takes for a number: one sign, then
\* digits, points, exponents and signs in any order.
RECURSIVE NumberEnd(_, _)
NumberEnd(t, pos) ==
    IF pos <= Len(t) /\ (IsDigit(t[pos]) \/ t[pos] \in {43, 45, 46, 69, 101})
    THEN NumberEnd(t, pos + 1) ELSE pos

\* The value of the digits num[from ..], as far as they go, after `acc'.
RECURSIVE DigitsValue(_, _, _)
DigitsValue(num, from, acc) ==
    IF from <= Len(num) /\ IsDigit(num[from])
    THEN DigitsValue(num, from + 1, acc * 10 + (num[from] - 48)) ELSE acc

RECURSIVE DigitsEnd(_, _)
DigitsEnd(num, from) ==
    IF from <= Len(num) /\ IsDigit(num[from]) THEN DigitsEnd(num, from + 1) ELSE from

Sign(num) == IF num # <<>> /\ num[1] = 45 THEN -1 ELSE 1
Unsigned(num) == IF num # <<>> /\ num[1] \in {43, 45} THEN Tail(num) ELSE num

StrToLL(num) == Sign(num) * DigitsValue(Unsigned(num), 1, 0)

\* strtod on digits, an optional fraction and an optional positive exponent,
\* as a fraction.
StrToD(num) ==
    LET u     == Unsigned(num)
        dot   == DigitsEnd(u, 1)
        frac  == IF At(u, dot, 46) THEN dot + 1 ELSE dot
        end   == DigitsEnd(u, frac)
        expo  == IF end < Len(u) /\ u[end] \in {69, 101} /\ IsDigit(u[end + 1])
                 THEN DigitsValue(u, end + 1, 0) ELSE 0
        mant  == DigitsValue(u, frac, DigitsValue(u, 1, 0))
    IN <<Sign(num) * mant * 10 ^ expo, 10 ^ (end - frac)>>

ParseNumber(t, pos, depth) ==
    LET end == NumberEnd(t, pos)
        num == SubSeq(t, pos, end - 1)
    IN IF end = pos THEN Failed
       ELSE Done(end, depth,
                 IF \E i \in 1 .. Len(num) : num[i] \in {46, 69, 101}
                 THEN Double(StrToD(num)[1], StrToD(num)[2]) ELSE Int_(StrToLL(num)))

Hex(c) == CASE IsDigit(c) -> c - 48
            [] c \in 97 .. 102 -> c - 87
            [] c \in 65 .. 70 -> c - 55
            [] OTHER -> -1

\* The code unit of four hexadecimal digits, or -1.
ParseHex4(t, pos) ==
    LET h == [i \in 0 .. 3 |-> IF pos + i <= Len(t) THEN Hex(t[pos + i]) ELSE -1]
    IN IF \E i \in 0 .. 3 : h[i] < 0 THEN -1
       ELSE ((h[0] * 16 + h[1]) * 16 + h[2]) * 16 + h[3]

Utf8(cp) ==
    CASE cp < 128   -> <<cp>>
      [] cp < 2048  -> <<192 + cp \div 64, 128 + (cp % 64)>>
      [] cp < 65536 -> <<224 + cp \div 4096, 128 + ((cp \div 64) % 64), 128 + (cp % 64)>>
      [] OTHER      -> <<240 + cp \div 262144, 128 + ((cp \div 4096) % 64),
                         128 + ((cp \div 64) % 64), 128 + (cp % 64)>>

High(u) == u \in 55296 .. 56319
Low(u)  == u \in 56320 .. 57343
Pair(hi, lo) == 65536 + (hi - 55296) * 1024 + (lo - 56320)

Unescape == (34 :> 34) @@ (92 :> 92) @@ (47 :> 47) @@ (98 :> 8) @@ (102 :> 12)
            @@ (110 :> 10) @@ (114 :> 13) @@ (116 :> 9)

\* The rest of a string, from pos, after the bytes `out' read so far.
RECURSIVE ParseStringFrom(_, _, _)
ParseStringFrom(t, pos, out) ==
    IF pos > Len(t) THEN Failed
    ELSE IF t[pos] = Quote THEN Done(pos + 1, 0, Str(out))
    ELSE IF t[pos] # Backslash THEN ParseStringFrom(t, pos + 1, Append(out, t[pos]))
    ELSE IF pos = Len(t) THEN Failed
    ELSE IF t[pos + 1] \in DOMAIN Unescape
         THEN ParseStringFrom(t, pos + 2, Append(out, Unescape[t[pos + 1]]))
    ELSE IF t[pos + 1] # 117 THEN Failed
    ELSE LET u  == ParseHex4(t, pos + 2)
             lo == ParseHex4(t, pos + 8)
             second == High(u) /\ At(t, pos + 6, Backslash) /\ At(t, pos + 7, 117)
         IN IF u < 0 \/ (second /\ lo < 0) THEN Failed
            ELSE IF ~second THEN ParseStringFrom(t, pos + 6, out \o Utf8(u))
            ELSE ParseStringFrom(t, pos + 12,
                     out \o (IF Low(lo) THEN Utf8(Pair(u, lo)) ELSE Utf8(u) \o Utf8(lo)))

RECURSIVE ParseValue(_, _, _), ParseItems(_, _, _, _), ParseMembers(_, _, _, _)

\* Fault: the way out of an empty array forgets --depth.
ParseArrayLeaks(t, pos, depth) ==
    IF depth >= kMaxDepth THEN Failed
    ELSE LET p == SkipWs(t, pos + 1)
         IN IF At(t, p, CloseArray) THEN Done(p + 1, depth + 1, Arr(<<>>))
            ELSE ParseItems(t, pos + 1, depth + 1, <<>>)

ParseArray(t, pos, depth) ==
    IF depth >= kMaxDepth THEN Failed
    ELSE LET p == SkipWs(t, pos + 1)
         IN IF At(t, p, CloseArray) THEN Done(p + 1, depth, Arr(<<>>))
            ELSE ParseItems(t, pos + 1, depth + 1, <<>>)

ParseItems(t, pos, depth, arr) ==
    LET item == ParseValue(t, pos, depth)
        p    == SkipWs(t, item.pos)
    IN IF ~item.ok THEN Failed
       ELSE IF At(t, p, Comma) THEN ParseItems(t, p + 1, item.depth, Append(arr, item.val))
       ELSE IF At(t, p, CloseArray)
            THEN Done(p + 1, item.depth - 1, Arr(Append(arr, item.val)))
       ELSE Failed

ParseObject(t, pos, depth) ==
    IF depth >= kMaxDepth THEN Failed
    ELSE LET p == SkipWs(t, pos + 1)
         IN IF At(t, p, CloseObject) THEN Done(p + 1, depth, Obj(<<>>))
            ELSE ParseMembers(t, p, depth + 1, <<>>)

ParseMembers(t, pos, depth, obj) ==
    LET key   == SkipWs(t, pos)
        name  == ParseStringFrom(t, key + 1, <<>>)
        colon == SkipWs(t, name.pos)
        val   == ParseValue(t, colon + 1, depth)
        p     == SkipWs(t, val.pos)
        grown == Append(obj, <<name.val.s, val.val>>)
    IN IF ~At(t, key, Quote) THEN Failed
       ELSE IF ~name.ok THEN Failed
       ELSE IF ~At(t, colon, Colon) THEN Failed
       ELSE IF ~val.ok THEN Failed
       ELSE IF At(t, p, Comma) THEN ParseMembers(t, p + 1, val.depth, grown)
       ELSE IF At(t, p, CloseObject) THEN Done(p + 1, val.depth - 1, Obj(grown))
       ELSE Failed

ParseValue(t, from, depth) ==
    LET pos == SkipWs(t, from)
        str == ParseStringFrom(t, pos + 1, <<>>)
    IN IF pos > Len(t) THEN Failed
       ELSE CASE t[pos] = OpenObject -> ParseObject(t, pos, depth)
              [] t[pos] = OpenArray  -> ParseArray(t, pos, depth)
              [] t[pos] = Quote -> IF str.ok THEN Done(str.pos, depth, str.val) ELSE Failed
              [] t[pos] = 116 -> Literal(t, pos, depth, <<116, 114, 117, 101>>, Bool(TRUE))
              [] t[pos] = 102 -> Literal(t, pos, depth, <<102, 97, 108, 115, 101>>, Bool(FALSE))
              [] t[pos] = 110 -> Literal(t, pos, depth, <<110, 117, 108, 108>>, Null)
              [] OTHER -> ParseNumber(t, pos, depth)

\* Parse: what follows the first value is not looked at.
Parse(t) == ParseValue(t, 1, 0)

(***************************************************************************)
(* JsLiteral: a text as a JavaScript literal between single quotes.        *)
(***************************************************************************)
JsNamed == (39 :> 39) @@ (92 :> 92) @@ (10 :> 110) @@ (13 :> 114)

JsLiteral(s) ==
    <<39>> \o FlattenSeq([i \in 1 .. Len(s) |->
                 CASE s[i] \in DOMAIN JsNamed -> <<Backslash, JsNamed[s[i]]>>
                   [] s[i] < 32 -> ControlEscape(s[i])
                   [] OTHER -> <<s[i]>>])
    \o <<39>>
=============================================================================
