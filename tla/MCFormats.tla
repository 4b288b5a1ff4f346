----------------------------- MODULE MCFormats -----------------------------
(***************************************************************************)
(* What the kernel reads and writes, over bounded inputs: JSON, Base64 and *)
(* the messages between a page and the kernel.  A behaviour is one state,  *)
(* an input; `scenario' says of which kind.                                *)
(***************************************************************************)
EXTENDS SyncCalls

VARIABLES scenario, input

-----------------------------------------------------------------------------
(***************************************************************************)
(* Inputs.  A text is a concatenation of at most four pieces: structure,   *)
(* numbers, words, strings, escapes, and a string that does not end.       *)
(***************************************************************************)
Strings == {<<>>, <<97>>, <<34, 92>>, <<39, 10, 1>>, <<195, 169>>}

Pieces == {<<91>>, <<93>>, <<123>>, <<125>>, <<44>>, <<58>>, <<32>>, <<49>>, <<45, 50>>,
           <<46, 53>>, <<110, 117, 108, 108>>, WriteEscaped(<<97>>),
           <<34, 92, 117, 48, 48, 101, 57, 34>>,
           <<34, 92, 117, 100, 56, 51, 100, 92, 117, 100, 101, 48, 48, 34>>, <<34, 92>>}

Fractions == {<<50, 46, 53>>, <<45, 50, 46, 53>>, <<50, 46, 48>>}    \* 2.5, -2.5, 2.0

Texts == {FlattenSeq(s) : s \in SeqOf(Pieces, 4)}
         \cup {<<49, 101, 50>>, <<49, 46, 53, 101, 50>>}    \* 1e2, 1.5e2
         \cup Fractions

Leaves == {Null, Bool(TRUE), Bool(FALSE), Int_(0), Int_(-120)} \cup {Str(s) : s \in Strings}

Containers(of) ==
    {Arr(a) : a \in SeqOf(of, 2)}
    \cup {Obj(o) : o \in SeqOf({<<k, v>> : k \in {<<>>, <<97>>}, v \in of}, 2)}

Deep == {Arr(<<>>), Arr(<<Null>>), Obj(<<>>), Obj(<<<<<<97>>, Int_(7)>>>>)}
Values == Leaves \cup Containers(Leaves) \cup Containers(Deep)
          \cup {Arr(<<v, w, Arr(<<>>)>>) : v, w \in Deep}

\* n arrays around a value.
RECURSIVE Nested(_, _)
Nested(n, v) == IF n = 0 THEN v ELSE Arr(<<Nested(n - 1, v)>>)

Binaries == SeqOf({0, 97, 255}, 4)

Inputs == [text |-> Texts, value |-> Values, binary |-> Binaries]

Spec ==
    /\ scenario \in DOMAIN Inputs /\ input \in Inputs[scenario]
    /\ [][UNCHANGED <<scenario, input>>]_<<scenario, input>>

-----------------------------------------------------------------------------
\* How JavaScript reads the inside of a literal between single quotes.
RECURSIVE JsRead(_)
JsRead(t) ==
    IF t = <<>> THEN <<>>
    ELSE IF t[1] = 39 THEN <<-1>>                         \* the literal ends here
    ELSE IF t[1] # Backslash THEN <<t[1]>> \o JsRead(Tail(t))
    ELSE IF t[2] = 117 THEN <<ParseHex4(t, 3)>> \o JsRead(SubSeq(t, 7, Len(t)))
    ELSE <<CASE t[2] = 110 -> 10 [] t[2] = 114 -> 13 [] OTHER -> t[2]>>
         \o JsRead(SubSeq(t, 3, Len(t)))

\* The code point of a UTF-8 sequence.
CodePoint(b) ==
    CASE Len(b) = 1 -> b[1]
      [] Len(b) = 2 -> (b[1] - 192) * 64 + (b[2] - 128)
      [] Len(b) = 3 -> ((b[1] - 224) * 64 + (b[2] - 128)) * 64 + (b[3] - 128)
      [] Len(b) = 4 -> (((b[1] - 240) * 64 + (b[2] - 128)) * 64 + (b[3] - 128)) * 64
                       + (b[4] - 128)

\* encodeURIComponent, of bytes: letters and digits stand for themselves.
UpperHex(n) == IF n < 10 THEN 48 + n ELSE 55 + n
Escaped(s) ==
    FlattenSeq([i \in DOMAIN s |->
        IF IsDigit(s[i]) \/ s[i] \in 97 .. 122 THEN <<s[i]>>
        ELSE <<37, UpperHex(s[i] \div 16), UpperHex(s[i] % 16)>>])

(***************************************************************************)
(* What the kernel writes it reads back: the whole text, as the same       *)
(* value, with the depth it came with, for a value without fractions that  *)
(* is nested at most kMaxDepth deep, and it refuses one that is nested     *)
(* deeper.  (A fraction is lost where it is read: JsonFractionsSurvive.)   *)
(* A text it accepts, be it JSON or not, has a value that is written and   *)
(* read back without a change.  A text put into a script as a literal is   *)
(* the same text to the page, and an escaped character the same character. *)
(***************************************************************************)
IsReadBack(v, text) == Parse(text) = Done(Len(text) + 1, 0, v)

IsLiteralOf(text, lit) == JsRead(SubSeq(lit, 2, Len(lit) - 1)) = text

IsWrittenAgain(r, text) == r.ok /\ Write(r.val) = text

JsonRoundTrip ==
    /\ scenario = "value" =>
          /\ \A v \in {input} \cup {Nested(n, Null) : n \in 0 .. kMaxDepth} :
                IsReadBack(v, Write(v))
          /\ ~Parse(Write(Nested(kMaxDepth + 1, Null))).ok
          /\ IsLiteralOf(Write(input), JsLiteral(Write(input)))
    /\ scenario = "text" =>
          LET Accepted(r) == r.ok => r.depth = 0 /\ IsWrittenAgain(Parse(Write(r.val)), Write(r.val))
          IN Accepted(Parse(input))
    /\ scenario = "binary" =>
          /\ \A u \in {0, 97, 233, 2047, 2048, 8232, 55295, 57344, 65535} : CodePoint(Utf8(u)) = u
          /\ CodePoint(Utf8(Pair(55357, 56832))) = 128512

(***************************************************************************)
(* A message a page or the sidecar sends arrives as it was meant: Base64   *)
(* gives back every buffer, an invocation keeps its numbers, its names,    *)
(* its arguments and its buffer, and an event keeps its payload, for JSON  *)
(* without fractions and numbers that fit their fields; a result that      *)
(* reaches the other side as JSON has its id, its verdict, its value and   *)
(* its buffer.  A synchronous call (its id is -1) that is escaped into a   *)
(* URL is the call the page made, whatever bytes it has, and the page gets *)
(* the value or an error: the message of the call's own, or, if it had     *)
(* none or the text was no call, one that says that the call failed.       *)
(***************************************************************************)
Invocation(id, v) ==
    Obj(<<<<Key.t, Str(InvokeWord)>>, <<Key.to, Int_(4)>>, <<Key.id, Int_(id)>>,
          <<Key.w, Int_(6)>>, <<Key.m, Str(<<109>>)>>, <<Key.f, Str(<<34>>)>>,
          <<Key.a, v>>, <<Key.b, Str(Encode(<<0, 255>>))>>>>)

Invoked(id, json) ==
    [ok |-> TRUE, type |-> "invoke", to |-> 4, id |-> id, window |-> 6,
     module |-> <<109>>, method |-> <<34>>, json |-> json, bin |-> <<0, 255>>]

MessagesArrive(v, json) ==
    LET emitted == [ok |-> TRUE, type |-> "event", to |-> 0, window |-> 3,
                    name |-> <<34, 110>>, json |-> json]
        sent == <<<<Write(Invocation(5, v)), Invoked(5, json)>>,
                  <<EncodeEvent(3, <<34, 110>>, json), emitted>>>>
    IN \A i \in DOMAIN sent : DecodeMessage(sent[i][1]) = sent[i][2]

\* What the page is to get, of a call with this outcome.
IsAnswered(call, status, v, error) ==
    InvokeSync(SyncBody(call, status, Write(v), error)) =
        IF call.ok /\ status = 0 THEN [returns |-> v]
        ELSE [throws |-> IF call.ok /\ error # <<>> THEN error ELSE SyncError]

SyncCallsArrive(v, json) ==
    LET sent == <<<<Escaped(Write(Invocation(-1, v))), Invoked(2 ^ IdBits - 1, json)>>,
                  <<<<>>, NoMessage>>, <<json, NoMessage>>>>
    IN \A i \in DOMAIN sent :
          /\ SyncCall(<<47>> \o sent[i][1]) = sent[i][2]
          /\ \A status \in {0, 1}, error \in {<<>>, <<34, 110>>} :
                IsAnswered(sent[i][2], status, v, error)

AnswerArrives(result, verdict, v) ==
    /\ result.ok
    /\ NumberOf(result.val, Key.id) = 5 /\ BytesOf(result.val) = <<0, 255>>
    /\ Find(result.val, SyncKey.ok) = <<Bool(verdict)>>
    /\ Find(result.val, SyncKey.r) = <<v>>

MessagesSurvive ==
    /\ scenario = "binary" => Decode(Encode(input)) = <<input>>
    /\ scenario = "value" =>
          /\ MessagesArrive(input, Write(input))
          /\ SyncCallsArrive(input, Write(input))
          /\ \A ok \in BOOLEAN :
                AnswerArrives(Parse(EncodeInvokeResult(5, ok, Write(input), <<0, 255>>)), ok, input)

\* Nothing is lost or changed on the way into a text and out of it.
WhatIsWrittenIsRead == JsonRoundTrip /\ MessagesSurvive

(***************************************************************************)
(* src/tests/minjson_test.cpp:18 asserts, of a text with "d":-2.5, that    *)
(* v.Find("d")->AsDouble() == -2.5: a number with a fraction that is       *)
(* parsed has the value that was written.                                  *)
(***************************************************************************)
JsonFractionsSurvive ==
    scenario = "text" /\ input \in Fractions =>
        LET d == AsDouble(Parse(input).val)
            f == StrToD(input)
        IN d[1] * f[2] = f[1] * d[2]
=============================================================================
