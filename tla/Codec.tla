------------------------------- MODULE Codec -------------------------------
(***************************************************************************)
(* Base64 (src/include/ow/Base64.h) and the bridge messages between a page *)
(* and the kernel (src/src/Bridge/Codec.cpp), over the JSON of Json.tla.   *)
(* A key or a word is named by its bytes.  An id has IdBits bits (64) and  *)
(* the id of a window WindowBits (32); a number too wide for its field     *)
(* keeps its low bits, and a negative one its two's complement.            *)
(***************************************************************************)
EXTENDS Json

CONSTANTS IdBits, WindowBits

(***************************************************************************)
(* Base64                                                                  *)
(***************************************************************************)
Sextet(v) == CASE v < 26 -> 65 + v
               [] v < 52 -> 71 + v
               [] v < 62 -> v - 4
               [] v = 62 -> 43
               [] v = 63 -> 47

Value64(c) == CASE c \in 65 .. 90  -> c - 65
                [] c \in 97 .. 122 -> c - 71
                [] c \in 48 .. 57  -> c + 4
                [] c = 43 -> 62
                [] c = 47 -> 63
                [] OTHER -> -1

\* The first n sextets of a group of three bytes, padded with '='.
Group(b0, b1, b2, n) ==
    LET v == b0 * 65536 + b1 * 256 + b2
        s == <<v \div 262144, (v \div 4096) % 64, (v \div 64) % 64, v % 64>>
    IN [i \in 1 .. 4 |-> IF i <= n THEN Sextet(s[i]) ELSE 61]

\* Fault: one byte left over is written with three sextets instead of two.
RECURSIVE EncodeLong(_)
EncodeLong(d) ==
    CASE d = <<>>   -> <<>>
      [] Len(d) = 1 -> Group(d[1], 0, 0, 3)
      [] Len(d) = 2 -> Group(d[1], d[2], 0, 3)
      [] OTHER      -> Group(d[1], d[2], d[3], 4) \o EncodeLong(SubSeq(d, 4, Len(d)))

RECURSIVE Encode(_)
Encode(d) ==
    CASE d = <<>>   -> <<>>
      [] Len(d) = 1 -> Group(d[1], 0, 0, 2)
      [] Len(d) = 2 -> Group(d[1], d[2], 0, 3)
      [] OTHER      -> Group(d[1], d[2], d[3], 4) \o Encode(SubSeq(d, 4, Len(d)))

\* The bytes of `in', or none if it has a byte outside the alphabet.  acc is
\* cut to 16 bits: only its low bits + 6 (at most 12) bits are ever looked at.
RECURSIVE DecodeFrom(_, _, _, _)
DecodeFrom(in, acc, bits, out) ==
    IF in = <<>> THEN <<out>>
    ELSE IF Head(in) \in {61, 10, 13, 32, 9} THEN DecodeFrom(Tail(in), acc, bits, out)
    ELSE LET v    == Value64(Head(in))
             a    == (acc * 64 + v) % 65536
             left == bits + 6 - 8
         IN IF v < 0 THEN <<>>
            ELSE IF bits + 6 < 8 THEN DecodeFrom(Tail(in), a, bits + 6, out)
            ELSE DecodeFrom(Tail(in), a, left, Append(out, (a \div 2 ^ left) % 256))

Decode(in) == DecodeFrom(in, 0, 0, <<>>)

(***************************************************************************)
(* DecodeMessage                                                           *)
(***************************************************************************)
Key == [t |-> <<116>>, to |-> <<116, 111>>, w |-> <<119>>, id |-> <<105, 100>>,
        n |-> <<110>>, p |-> <<112>>, m |-> <<109>>, f |-> <<102>>, a |-> <<97>>,
        b |-> <<98>>]

EventWord  == <<101, 118, 101, 110, 116>>
InvokeWord == <<105, 110, 118, 111, 107, 101>>

NoMessage == [ok |-> FALSE]

TextOf(root, key) ==
    LET v == Find(root, key)
    IN IF v # <<>> /\ v[1].type = "string" THEN v[1].s ELSE <<>>

NumberOf(root, key) ==
    LET v == Find(root, key)
    IN IF v # <<>> /\ v[1].type \in {"int", "double"} THEN AsInt(v[1], 0) % 2 ^ IdBits ELSE 0

WindowOf(root, key) == NumberOf(root, key) % 2 ^ WindowBits

JsonOf(root, key, default) ==
    LET v == Find(root, key) IN IF v = <<>> THEN default ELSE Write(v[1])

BytesOf(root) ==
    LET d == Decode(TextOf(root, Key.b)) IN IF d = <<>> THEN <<>> ELSE d[1]

\* The `t' of a message is its last member of that name; every other field is
\* the first one.
TypeOf(root) ==
    LET at == {i \in 1 .. Len(root.o) : root.o[i][1] = Key.t}
        v  == root.o[CHOOSE i \in at : \A j \in at : j <= i][2]
    IN IF at = {} THEN <<>> ELSE IF v.type = "string" THEN v.s ELSE <<>>

EventMessage(root) ==
    [ok |-> TextOf(root, Key.n) # <<>>, type |-> "event",
     to |-> WindowOf(root, Key.to), window |-> WindowOf(root, Key.w),
     name |-> TextOf(root, Key.n), json |-> JsonOf(root, Key.p, Write(Null))]

\* Fault: the arguments are taken from the member `p', as an event's payload.
InvokeMessageNoArgs(root) ==
    [ok |-> TextOf(root, Key.m) # <<>> /\ TextOf(root, Key.f) # <<>>,
     type |-> "invoke", to |-> WindowOf(root, Key.to),
     id |-> NumberOf(root, Key.id), window |-> WindowOf(root, Key.w),
     module |-> TextOf(root, Key.m), method |-> TextOf(root, Key.f),
     json |-> JsonOf(root, Key.p, Write(Arr(<<>>))), bin |-> BytesOf(root)]

InvokeMessage(root) ==
    [ok |-> TextOf(root, Key.m) # <<>> /\ TextOf(root, Key.f) # <<>>,
     type |-> "invoke", to |-> WindowOf(root, Key.to),
     id |-> NumberOf(root, Key.id), window |-> WindowOf(root, Key.w),
     module |-> TextOf(root, Key.m), method |-> TextOf(root, Key.f),
     json |-> JsonOf(root, Key.a, Write(Arr(<<>>))), bin |-> BytesOf(root)]

DecodeMessage(text) ==
    LET root == Parse(text)
    IN IF ~root.ok THEN NoMessage
       ELSE IF root.val.type # "object" THEN NoMessage
       ELSE CASE TypeOf(root.val) = EventWord  -> EventMessage(root.val)
              [] TypeOf(root.val) = InvokeWord -> InvokeMessage(root.val)
              [] OTHER -> NoMessage

(***************************************************************************)
(* EncodeInvokeResult and EncodeEvent.  The result and the payload are     *)
(* texts already: they are put in as they are, and "" stands for null.     *)
(***************************************************************************)
OrNull(json) == IF json = <<>> THEN Write(Null) ELSE json

Field(key, text) == WriteEscaped(key) \o <<Colon>> \o text

Object(fields) == <<OpenObject>> \o Joined(fields) \o <<CloseObject>>

EncodeInvokeResult(id, ok, json, bin) ==
    Object(<<Field(Key.t, WriteEscaped(<<114, 101, 115, 117, 108, 116>>)),
             Field(Key.id, Decimal(id)),
             Field(<<111, 107>>, Write(Bool(ok))),
             Field(<<114>>, OrNull(json))>>
           \o IF bin = <<>> THEN <<>> ELSE <<Field(Key.b, WriteEscaped(Encode(bin)))>>)

EncodeEvent(window, name, json) ==
    Object(<<Field(Key.t, WriteEscaped(EventWord)),
             Field(Key.w, Decimal(window)),
             Field(Key.n, Write(Str(name))),
             Field(Key.p, OrNull(json))>>)
=============================================================================
