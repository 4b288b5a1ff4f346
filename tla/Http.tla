-------------------------------- MODULE Http --------------------------------
(***************************************************************************)
(* The HTTP client of the kernel (src/src/Runtime/Http.cpp): Perform with  *)
(* its redirects, one RequestOnce per hop, and the two downloads.          *)
(*                                                                         *)
(* A body travels as cells: one per byte of data, one for the digits of a  *)
(* chunk's size (a number below 10), and the two bytes of every end of     *)
(* line.  What arrives is what the server sent up to the point where the   *)
(* connection ends; how it ends decides whether the client notices.        *)
(***************************************************************************)
EXTENDS Integers, SequencesExt

CONSTANTS Urls,          \* bound: the first URL and the `location's tried
          Bodies         \* bound: the bodies tried, as sequences of chunks

VARIABLES
    httpAt,              \* where Perform is, or the result: "ok", "error"
    httpUrl,             \* currentUrl
    answer,              \* the answer the server gives to the current request
    received,            \* cells of its body that have arrived
    body,                \* resp.body
    target,              \* the file of DownloadToFile: "old", "whole", "none"
    hops                 \* requests sent so far

httpVars == <<httpAt, httpUrl, answer, received, body, target, hops>>

kMaxRedirects == 8
Redirects == {301, 302, 307, 308}

\* ParseUrl: only the exact schemes http and https; no colon before "://" makes
\* a relative URL, which is refused; an address in brackets keeps its port.
ParseUrl(url) ==
    [ok   |-> url.scheme \in {"http", "https"} /\ url.host # "",
     tls  |-> url.scheme = "https",
     host |-> IF url.brackets /\ url.port # "" THEN "unknown" ELSE url.host,
     port |-> CASE url.port # "" /\ ~url.brackets -> url.port
                [] url.scheme = "https" -> "443"
                [] OTHER -> "80"]

NoAnswer == [status |-> 0, location |-> <<>>, chunked |-> FALSE, last |-> "other",
             chunks |-> <<>>]

\* What a server may answer: `last' is the header it sends last.  A `location'
\* is a sequence of at most one URL.
Answers ==
    [status : {200, 404}, location : {<<>>}, chunked : {FALSE}, last : {"other"},
     chunks : Bodies]
    \cup [status : {200}, location : {<<>>}, chunked : {TRUE},
          last : {"other", "transfer-encoding"}, chunks : Bodies]
    \cup [status : {301}, location : {<<u>> : u \in Urls}, chunked : {FALSE},
          last : {"other", "location"}, chunks : {<<>>}]

\* ParseHeaders is handed the headers without their last end of line, and so
\* it never sees the last of them.
Location(a) == IF a.last = "location" THEN <<>> ELSE a.location
Chunked(a) == a.chunked /\ a.last # "transfer-encoding"

Cr == 13
Lf == 10
Eol == <<Cr, Lf>>

\* The body as the server sends it; every chunk is a non-empty sequence.
Chunk(c) == <<Len(c)>> \o (Eol \o (c \o Eol))
Framed(chunks) == FlattenSeq([i \in 1 .. Len(chunks) |-> Chunk(chunks[i])])

Wire(a) == IF a.chunked THEN Framed(a.chunks) \o (<<0>> \o (Eol \o Eol))
           ELSE FlattenSeq(a.chunks)

ProperBodies ==
    \A b \in Bodies : b \in Seq(Seq(Int)) /\ \A i \in 1 .. Len(b) : Len(b[i]) \in 1 .. 9

Init ==
    /\ httpAt = "parse" /\ httpUrl \in Urls
    /\ answer = NoAnswer /\ received = 0 /\ body = <<>>
    /\ target = "old" /\ hops = 0

(***************************************************************************)
(* RequestOnce: connect and send, read to the end, take the answer apart.  *)
(***************************************************************************)
Request ==
    /\ httpAt = "parse"
    /\ IF ParseUrl(httpUrl).ok
       THEN \/ httpAt' = "read" /\ hops' = hops + 1 /\ answer' \in Answers
            \/ httpAt' = "error" /\ UNCHANGED <<hops, answer>>   \* connect, TLS, send
       ELSE httpAt' = "error" /\ UNCHANGED <<hops, answer>>
    /\ received' = 0
    /\ body' = <<>>
    /\ UNCHANGED <<httpUrl, target>>

\* ReadAll.  Over TLS an orderly end and a reset are the end of the answer, and
\* everything else an error; without TLS every end is one, a time-out too.
\* An end before the empty line of the headers is an error.
ReadAll ==
    /\ httpAt = "read"
    /\ \E end \in {"closed", "reset", "fin", "timeout"}, n \in 0 .. Len(Wire(answer)) :
          /\ received' = n
          /\ httpAt' \in IF ParseUrl(httpUrl).tls /\ end \notin {"closed", "reset"}
                         THEN {"error"} ELSE {"headers", "error"}
    /\ UNCHANGED <<httpUrl, answer, body, target, hops>>

\* Where "\r\n" is found in t at or after pos, or 0.
FindEol(t, pos) ==
    LET at == {i \in pos .. Len(t) - 1 : t[i] = Cr /\ t[i + 1] = Lf}
    IN IF at = {} THEN 0 ELSE CHOOSE i \in at : \A j \in at : i <= j

\* strtoull of t[pos .. eol - 1]: 0 when there are no digits.
SizeAt(t, pos, eol) == IF pos < eol /\ t[pos] < Lf THEN t[pos] ELSE 0

\* Fault: the end of line after a chunk's data is not skipped.
DechunkStepNoSkip(t, s) ==
    LET eol  == FindEol(t, s.pos)
        size == SizeAt(t, s.pos, eol)
    IN IF s.at # "loop" THEN s
       ELSE IF s.pos > Len(t) \/ eol = 0 \/ size = 0 THEN [s EXCEPT !.at = "done"]
       ELSE IF eol + 1 + size > Len(t) THEN [s EXCEPT !.at = "failed"]
       ELSE [s EXCEPT !.pos = eol + 2 + size,
                      !.out = @ \o SubSeq(t, eol + 2, eol + 1 + size)]

\* The loop over the chunks: one turn of it.
DechunkStep(t, s) ==
    LET eol  == FindEol(t, s.pos)
        size == SizeAt(t, s.pos, eol)
    IN IF s.at # "loop" THEN s
       ELSE IF s.pos > Len(t) \/ eol = 0 \/ size = 0 THEN [s EXCEPT !.at = "done"]
       ELSE IF eol + 1 + size > Len(t) THEN [s EXCEPT !.at = "failed"]
       ELSE [s EXCEPT !.pos = eol + 2 + size + 2,
                      !.out = @ \o SubSeq(t, eol + 2, eol + 1 + size)]

\* The data, or none for a chunk that is cut off.  A turn takes three cells and
\* more, so that as many turns as cells are enough.
Dechunk(t) ==
    LET s[n \in 0 .. Len(t)] ==
            IF n = 0 THEN [at |-> "loop", pos |-> 1, out |-> <<>>] ELSE DechunkStep(t, s[n - 1])
        end == s[Len(t)]
    IN IF end.at = "failed" THEN <<>> ELSE <<end.out>>

TakeBody ==
    /\ httpAt = "headers"
    /\ LET raw == SubSeq(Wire(answer), 1, received)
           out == IF Chunked(answer) THEN Dechunk(raw) ELSE <<raw>>
       IN IF out = <<>> THEN httpAt' = "error" /\ UNCHANGED body
                        ELSE httpAt' = "answered" /\ body' = out[1]
    /\ UNCHANGED <<httpUrl, answer, received, target, hops>>

(***************************************************************************)
(* Perform: the status is only looked at for a redirect.                   *)
(***************************************************************************)
Redirect ==
    /\ httpAt = "answered" /\ answer.status \in Redirects
    /\ IF Location(answer) = <<>> \/ hops > kMaxRedirects
       THEN httpAt' = "error" /\ UNCHANGED httpUrl
       ELSE httpAt' = "parse" /\ httpUrl' = Location(answer)[1]
    /\ UNCHANGED <<answer, received, body, target, hops>>

(***************************************************************************)
(* DownloadToFile: the body is complete before the file is truncated.      *)
(***************************************************************************)
WriteFile ==
    /\ httpAt = "answered" /\ answer.status \notin Redirects
    /\ \/ httpAt' = "ok" /\ target' = "whole"
       \/ httpAt' = "error" /\ target' \in {"old", "none"}    \* open, or write
    /\ UNCHANGED <<httpUrl, answer, received, body, hops>>

Next == Request \/ ReadAll \/ TakeBody \/ Redirect \/ WriteFile

-----------------------------------------------------------------------------
\* The data that the first n cells of an answer's body stand for, counting only
\* whole chunks.
DataIn(a, n) ==
    LET in == {i \in 0 .. Len(a.chunks) : Len(Framed(SubSeq(a.chunks, 1, i))) - 2 <= n}
        last == CHOOSE i \in in : \A j \in in : j <= i
    IN FlattenSeq(SubSeq(a.chunks, 1, last))

(***************************************************************************)
(* What a download that succeeded has written is data the server sent,     *)
(* from the beginning, nothing left out, nothing of the framing in it, and *)
(* of a chunked body only whole chunks; if the answer arrived whole it is  *)
(* all of it.  The chain of redirects is never longer than nine requests,  *)
(* and a failure never leaves half a file.  (A body without chunks that    *)
(* ended early, and a 404, are successful downloads: who calls must check  *)
(* what it got.  An answer whose last header is Transfer-Encoding is left  *)
(* to NoFramingInBody.)                                                    *)
(***************************************************************************)
DownloadIsWhatWasSent ==
    /\ httpAt = "ok" =>
          /\ answer.status \notin Redirects
          /\ target = "whole"
          /\ answer.chunked =>
                answer.last = "transfer-encoding" \/ body = DataIn(answer, received)
          /\ ~answer.chunked => body = SubSeq(FlattenSeq(answer.chunks), 1, received)
          /\ received = Len(Wire(answer)) /\ answer.last # "transfer-encoding"
                => body = FlattenSeq(answer.chunks)
    /\ httpAt # "ok" => target \in {"old", "none"}
    /\ hops <= kMaxRedirects + 1

(***************************************************************************)
(* src/src/Runtime/Http.cpp:5-6 promises a client for HTTP/1.1 with        *)
(* chunked bodies: what it downloads never holds the sizes and the ends of *)
(* lines between the chunks, whichever header came last.                   *)
(***************************************************************************)
NoFramingInBody ==
    httpAt = "ok" /\ answer.chunked /\ received = Len(Wire(answer))
        => body = FlattenSeq(answer.chunks)
=============================================================================
