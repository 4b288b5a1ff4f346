------------------------------ MODULE SyncCalls ------------------------------
(***************************************************************************)
(* Synchronous calls of a page: it asks for a URL of the scheme ow-sync    *)
(* whose last part is the call, and the answer is what it is served        *)
(* (RegisterKernelSchemes of                                               *)
(* src/src/Webview/linux/WebKitGTKBackend.cpp, and invokeSync of           *)
(* src/src/Bridge/BridgeScript.cpp).                                       *)
(***************************************************************************)
EXTENDS Codec

\* Percent is 37, a slash 47; a percent sign that no two hexadecimal digits
\* follow stands for itself.
RECURSIVE Unescaped(_)
Unescaped(enc) ==
    IF enc = <<>> THEN <<>>
    ELSE IF enc[1] = 37 /\ Len(enc) > 2 /\ Hex(enc[2]) >= 0 /\ Hex(enc[3]) >= 0
         THEN <<Hex(enc[2]) * 16 + Hex(enc[3])>> \o Unescaped(SubSeq(enc, 4, Len(enc)))
         ELSE <<enc[1]>> \o Unescaped(Tail(enc))

\* The call in the text behind the last slash.
SyncCall(uri) ==
    LET slashes == {i \in DOMAIN uri : uri[i] = 47}
        from == IF slashes = {} THEN Len(uri) + 1
                ELSE (CHOOSE i \in slashes : \A j \in slashes : i >= j) + 1
    IN DecodeMessage(Unescaped(SubSeq(uri, from, Len(uri))))

(***************************************************************************)
(* The answer to a call: its result, a text that goes in as it is, or the  *)
(* message of its error.  A text that is no call gets an error with        *)
(* another member, whose wording is left out.                              *)
(***************************************************************************)
SyncKey == [ok |-> <<111, 107>>, r |-> <<114>>, error |-> <<101, 114, 114, 111, 114>>,
            message |-> <<109, 101, 115, 115, 97, 103, 101>>]

Verdict(ok) == Field(SyncKey.ok, Write(Bool(ok)))

SyncBody(call, status, json, error) ==
    CASE ~call.ok -> Object(<<Verdict(FALSE), Field(SyncKey.error, Write(Str(<<33>>)))>>)
      [] call.ok /\ status # 0 ->
            Object(<<Verdict(FALSE),
                     Field(SyncKey.r, Write(Obj(<<<<SyncKey.message, Str(error)>>>>)))>>)
      [] call.ok /\ status = 0 -> Object(<<Verdict(TRUE), Field(SyncKey.r, json)>>)

(***************************************************************************)
(* The page's side, invokeSync: an answer is returned as `returns', or     *)
(* thrown as the message it has, and as SyncError if it has none.  Of what *)
(* the kernel writes JSON.parse reads what the kernel's own reader reads.  *)
(***************************************************************************)
SyncError == <<63>>

\* r.message, or SyncError for what JavaScript takes for no text.
ErrorOf(r) ==
    LET m == IF r = <<>> THEN <<>> ELSE Find(r[1], SyncKey.message)
    IN IF m = <<>> \/ m = <<Str(<<>>)>> THEN SyncError ELSE m[1].s

\* The answer must be JSON: what is not throws an error of its own.
InvokeSync(body) ==
    LET res == Parse(body)
        r   == Find(res.val, SyncKey.r)
    IN IF ~res.ok THEN [throws |-> <<>>]
       ELSE IF Find(res.val, SyncKey.ok) = <<Bool(TRUE)>> THEN [returns |-> r[1]]
       ELSE [throws |-> ErrorOf(r)]
=============================================================================
