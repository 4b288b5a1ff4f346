------------------------------ MODULE Session ------------------------------
(***************************************************************************)
(* The builtins that work on the web views: session_builtin.cpp (cookies,  *)
(* site data, downloads) and window_extra.cpp (captures, searches, the     *)
(* properties of a window), on Linux, with what BuiltinUtil gives them.    *)
(*                                                                         *)
(* WebKit answers some requests later, and the builtin waits for it in a   *)
(* loop of its own inside the handler of the page's call: every other      *)
(* handler runs meanwhile, further calls and the end of the window         *)
(* included.  The loops form a stack, and only the innermost one can end.  *)
(* A step is one dispatch of the main context (turn is FALSE), or what the *)
(* innermost loop does when a dispatch is over (turn is TRUE).             *)
(*                                                                         *)
(* A view has a web context of its own; 0 is the default one.  One cookie  *)
(* stands for all, and a context has it or not.                            *)
(***************************************************************************)
EXTENDS Naturals, Sequences, FiniteSets

CONSTANTS MaxWindows,    \* bound: windows opened
          MaxCalls,      \* bound: calls that wait, and calls that do not
          MaxDownloads,  \* bound: downloads WebKit starts
          Setters,       \* the setters a behaviour calls
          FindGuard,     \* findInPage: iterations at most (300)
          FindStable     \* findInPage: iterations without a change (10)

VARIABLES
    opened, live,     \* windows so far; LiveWindows
    host,             \* BuiltinUtil's g_host
    property,         \* property[w]: what was told of w
    jar,              \* the contexts that have the cookie
    stack,            \* the calls that wait, innermost last
    turn,
    asked,            \* calls WebKit has not answered yet
    calls,            \* calls so far
    counted,          \* counted[w]: match-count of the view's find controller
    connected,        \* contexts whose download-started has a handler
    handlers,         \* handlers[c]: how many it has
    g_downloads,      \* g_downloads[id] = [win, dl]
    g_nextDl,
    transfer,         \* transfer[dl]: "none", "runs" or "over"
    transferIn,       \* transferIn[dl]: its context, and whether it was connected
    emitted,          \* history: events the modules' host was given
    faults            \* history: uses of a view that is gone

callVars == <<stack, turn, asked, calls>>
downloadVars == <<connected, handlers, g_downloads, g_nextDl, transfer, transferIn, emitted>>
viewVars == <<property, jar, counted>>
windowVars == <<opened, live, host, faults>>
vars == <<windowVars, viewVars, callVars, downloadVars>>

Window == 1 .. MaxWindows
Context == 0 .. MaxWindows
Download == 1 .. MaxDownloads
NoCtx == "null"

\* The host ModuleLoader makes has no ctx, and a host without one is no host.
MakeHost == [ctx |-> NoCtx, emit_event |-> "HostEmitEvent"]
Host == IF host.ctx # NoCtx THEN {host} ELSE {}
Emitting(event) == IF Host = {} THEN {} ELSE {event}

Init ==
    /\ opened = 0 /\ live = {}
    /\ host = MakeHost
    /\ property = [w \in Window |-> {}]
    /\ jar = {}
    /\ stack = <<>> /\ turn = FALSE /\ asked = {} /\ calls = 0
    /\ counted = [w \in Window |-> 0]
    /\ connected = {} /\ handlers = [c \in Context |-> 0]
    /\ g_downloads = <<>> /\ g_nextDl = 1
    /\ transfer = [d \in Download |-> "none"]
    /\ transferIn = [d \in Download |-> [ctx |-> 0, tracked |-> FALSE]]
    /\ emitted = {} /\ faults = {}

\* WebviewById and WindowById: a window is found while it is in LiveWindows.
Found(w) == w \in live

(***************************************************************************)
(* Dispatches.  One is over when its handler has returned: the innermost   *)
(* loop, if there is one, looks at its condition then.                     *)
(***************************************************************************)
Dispatch == ~turn /\ turn' = (stack # <<>>)
Counting == calls < MaxCalls /\ calls' = calls + 1
\* A call that comes back at once, with an error or an answer.
Immediate == Dispatch /\ Counting /\ UNCHANGED <<stack, asked>>

OpenWindow ==
    /\ Dispatch
    /\ opened < MaxWindows
    /\ opened' = opened + 1 /\ live' = live \cup {opened'}
    /\ UNCHANGED <<host, faults, viewVars, stack, asked, calls, downloadVars>>

CloseWindow(w) ==
    /\ Dispatch
    /\ w \in live
    /\ live' = live \ {w}
    /\ UNCHANGED <<opened, host, faults, viewVars, stack, asked, calls, downloadVars>>

\* A call that waits: its handler is now the innermost loop.
Wait(op, w) ==
    /\ ~turn /\ Counting
    /\ stack' = Append(stack, [call |-> calls', op |-> op, win |-> w, done |-> FALSE,
                               cookie |-> FALSE, guard |-> 0, matches |-> 0, stable |-> 0])
    /\ turn' = FALSE

cookiesGet ==
    /\ Wait("cookiesGet", 0) /\ asked' = asked \cup {calls'}
    /\ UNCHANGED <<windowVars, viewVars, downloadVars>>

cookieDelete ==
    /\ Wait("cookieDelete", 0) /\ asked' = asked \cup {calls'}
    /\ UNCHANGED <<windowVars, viewVars, downloadVars>>

capturePage(w) ==
    /\ Found(w)
    /\ Wait("capturePage", w) /\ asked' = asked \cup {calls'}
    /\ UNCHANGED <<windowVars, viewVars, downloadVars>>

\* webkit_find_controller_search: the count starts again.
findInPage(w) ==
    /\ Found(w)
    /\ Wait("findInPage", w)
    /\ counted' = [counted EXCEPT ![w] = 0]
    /\ UNCHANGED <<windowVars, property, jar, asked, downloadVars>>

(***************************************************************************)
(* The innermost loop.  The two cookie calls and the capture wait for      *)
(* done; the search goes round a bounded number of times and reads the     *)
(* find controller of its view, whatever has become of the view.           *)
(***************************************************************************)
Top == stack[Len(stack)]
Below == SubSeq(stack, 1, Len(stack) - 1)

Return ==
    /\ stack' = Below
    /\ turn' = (Below # <<>>)

GoRound == turn' = FALSE

\* Fault: the wait is bounded like that of findInPage.
PumpUntilBounded ==
    /\ turn /\ Top.op # "findInPage"
    /\ IF Top.done \/ Top.guard >= FindGuard
       THEN Return
       ELSE stack' = [stack EXCEPT ![Len(stack)].guard = @ + 1] /\ GoRound
    /\ jar' = IF Top.done /\ Top.op = "cookieDelete" /\ Top.cookie THEN jar \ {0} ELSE jar
    /\ UNCHANGED <<windowVars, property, counted, asked, calls, downloadVars>>

PumpUntil ==
    /\ turn /\ Top.op # "findInPage"
    /\ IF Top.done THEN Return ELSE GoRound /\ UNCHANGED stack
    /\ jar' = IF Top.done /\ Top.op = "cookieDelete" /\ Top.cookie THEN jar \ {0} ELSE jar
    /\ UNCHANGED <<windowVars, property, counted, asked, calls, downloadVars>>

FindLoop ==
    /\ turn /\ Top.op = "findInPage"
    /\ faults' = IF Found(Top.win) THEN faults ELSE faults \cup {"deadFindController"}
    /\ LET now == counted[Top.win]
           same == now = Top.matches /\ now > 0
       IN IF (same /\ Top.stable >= FindStable) \/ Top.guard + 1 >= FindGuard
          THEN Return
          ELSE /\ stack' = [stack EXCEPT ![Len(stack)] =
                     [Top EXCEPT !.guard = @ + 1, !.matches = now,
                                 !.stable = IF same THEN @ + 1 ELSE 0]]
               /\ GoRound
    /\ UNCHANGED <<opened, live, host, viewVars, asked, calls, downloadVars>>

(***************************************************************************)
(* The callbacks write into the frame of the call that asked.              *)
(***************************************************************************)
FrameOf(call) == {k \in 1 .. Len(stack) : stack[k].call = call}

Answer(call) ==
    /\ Dispatch
    /\ call \in asked
    /\ asked' = asked \ {call}
    /\ stack' = [k \in 1 .. Len(stack) |->
           IF k \in FrameOf(call)
           THEN [stack[k] EXCEPT !.done = TRUE, !.cookie = (0 \in jar)] ELSE stack[k]]
    /\ UNCHANGED <<windowVars, viewVars, calls, downloadVars>>

Counted(w) ==
    /\ Dispatch
    /\ counted[w] = 0 /\ Found(w)
    /\ counted' = [counted EXCEPT ![w] = 1]
    /\ UNCHANGED <<windowVars, property, jar, stack, asked, calls, downloadVars>>

(***************************************************************************)
(* Calls that come back at once.  CookieMgr is that of the default         *)
(* context, clearStorage works on the context of the view.                 *)
(***************************************************************************)
cookiesSet ==
    /\ Immediate
    /\ jar' = jar \cup {0}
    /\ UNCHANGED <<windowVars, property, counted, downloadVars>>

PageSetsCookie(w) ==
    /\ Dispatch
    /\ Found(w)
    /\ jar' = jar \cup {w}
    /\ UNCHANGED <<windowVars, property, counted, stack, asked, calls, downloadVars>>

clearStorage(w, cookies) ==
    /\ Immediate
    /\ jar' = IF Found(w) /\ cookies THEN jar \ {w} ELSE jar
    /\ UNCHANGED <<windowVars, property, counted, downloadVars>>

\* What a window, its view or the context of its view is told: SetProperty is
\* setAlwaysOnTop, setOpacity, flashFrame, setIcon, setUserAgent and zoom.  A
\* window that is gone, or a picture that cannot be read, is refused.
Told(w, p) == property' = IF Found(w) THEN [property EXCEPT ![w] = @ \cup {p}] ELSE property

SetProperty(w, p, valid) ==
    /\ Immediate
    /\ IF p = "icon" /\ ~valid THEN UNCHANGED property ELSE Told(w, p)
    /\ UNCHANGED <<windowVars, jar, counted, downloadVars>>

openDevTools(w) ==
    /\ Immediate
    /\ Told(w, "devTools")
    /\ UNCHANGED <<windowVars, jar, counted, downloadVars>>

setProxy(w) ==
    /\ Immediate
    /\ Told(w, "proxy")
    /\ UNCHANGED <<windowVars, jar, counted, downloadVars>>

\* Without a language it is switched off.
spellCheck(w, languages) ==
    /\ Immediate
    /\ IF languages
       THEN Told(w, "spelling")
       ELSE property' = IF Found(w) THEN [property EXCEPT ![w] = @ \ {"spelling"}]
                                    ELSE property
    /\ UNCHANGED <<windowVars, jar, counted, downloadVars>>

\* Every view, also those that were told one of their own.
setUserAgentAll ==
    /\ Immediate
    /\ property' = [w \in Window |->
           IF Found(w) THEN property[w] \cup {"userAgent"} ELSE property[w]]
    /\ UNCHANGED <<windowVars, jar, counted, downloadVars>>

\* reload, goBack, goForward and findStop end what was found in the page; stop
\* and the questions (canGoBack, getURL, getTitle...) leave it.
Navigate(w, leaves) ==
    /\ Immediate
    /\ counted' = IF Found(w) /\ leaves THEN [counted EXCEPT ![w] = 0] ELSE counted
    /\ UNCHANGED <<windowVars, property, jar, downloadVars>>

(***************************************************************************)
(* Downloads.                                                              *)
(***************************************************************************)
\* Fault: every attach connects a handler.
AttachAlways(w) ==
    /\ Immediate
    /\ IF Found(w)
       THEN /\ connected' = connected \cup {w}
            /\ handlers' = [handlers EXCEPT ![w] = @ + 1]
       ELSE UNCHANGED <<connected, handlers>>
    /\ UNCHANGED <<windowVars, viewVars, g_downloads, g_nextDl, transfer, transferIn, emitted>>

attach(w) ==
    /\ Immediate
    /\ IF Found(w) /\ w \notin connected
       THEN /\ connected' = connected \cup {w}
            /\ handlers' = [handlers EXCEPT ![w] = @ + 1]
       ELSE UNCHANGED <<connected, handlers>>
    /\ UNCHANGED <<windowVars, viewVars, g_downloads, g_nextDl, transfer, transferIn, emitted>>

\* LiveWindows().rbegin(), or 0.
NewestWindow == IF live = {} THEN 0 ELSE CHOOSE w \in live : \A v \in live : v <= w

\* The handlers of the context's download-started run one after the other; a
\* context without one tracks nothing.
OnDownloadStarted(d, c) ==
    LET n == handlers[c]
        ids == g_nextDl .. g_nextDl + n - 1
    IN /\ Dispatch
       /\ c \in 1 .. opened
       /\ transfer[d] = "none" /\ \A e \in Download : e < d => transfer[e] # "none"
       /\ transfer' = [transfer EXCEPT ![d] = "runs"]
       /\ transferIn' = [transferIn EXCEPT ![d] = [ctx |-> c, tracked |-> c \in connected]]
       /\ g_downloads' = [id \in DOMAIN g_downloads \cup ids |->
              IF id \in ids THEN [win |-> NewestWindow, dl |-> d] ELSE g_downloads[id]]
       /\ g_nextDl' = g_nextDl + n
       /\ emitted' = emitted \cup UNION {Emitting(<<"downloadStarted", id>>) : id \in ids}
       /\ UNCHANGED <<windowVars, viewVars, stack, asked, calls, connected, handlers>>

IdsOf(d) == {id \in DOMAIN g_downloads : g_downloads[id].dl = d}

OnDlProgress(d) ==
    /\ Dispatch
    /\ transfer[d] = "runs"
    /\ emitted' = emitted \cup UNION {Emitting(<<"downloadProgress", id>>) : id \in IdsOf(d)}
    /\ UNCHANGED <<windowVars, viewVars, stack, asked, calls, connected, handlers,
                   g_downloads, g_nextDl, transfer, transferIn>>

\* Fault: the entry stays in the table.
OnDlFinishedKeeps(d) ==
    /\ transfer[d] = "runs"
    /\ transfer' = [transfer EXCEPT ![d] = "over"]
    /\ emitted' = emitted \cup UNION {Emitting(<<"downloadFinished", id>>) : id \in IdsOf(d)}
    /\ UNCHANGED g_downloads

\* Also after a failure and after a cancel.
OnDlFinished(d) ==
    /\ transfer[d] = "runs"
    /\ transfer' = [transfer EXCEPT ![d] = "over"]
    /\ emitted' = emitted \cup UNION {Emitting(<<"downloadFinished", id>>) : id \in IdsOf(d)}
    /\ g_downloads' = [id \in DOMAIN g_downloads \ IdsOf(d) |-> g_downloads[id]]

DownloadEnds(d) ==
    /\ Dispatch
    /\ OnDlFinished(d)
    /\ UNCHANGED <<windowVars, viewVars, stack, asked, calls, connected, handlers,
                   g_nextDl, transferIn>>

\* webkit_download_cancel ends the transfer, and "finished" follows.
downloadCancel(id) ==
    /\ Immediate
    /\ OnDlFinished(g_downloads[id].dl)
    /\ UNCHANGED <<windowVars, viewVars, connected, handlers, g_nextDl, transferIn>>

Next ==
    \/ OpenWindow \/ \E w \in Window : CloseWindow(w)
    \/ cookiesGet \/ cookieDelete \/ cookiesSet \/ setUserAgentAll
    \/ \E w \in Window :
          \/ capturePage(w) \/ findInPage(w) \/ attach(w)
          \/ PageSetsCookie(w) \/ Counted(w)
          \/ \E b \in BOOLEAN : clearStorage(w, b)
          \/ \E p \in Setters, valid \in BOOLEAN : SetProperty(w, p, valid)
          \/ openDevTools(w) \/ setProxy(w)
          \/ \E b \in BOOLEAN : spellCheck(w, b) \/ Navigate(w, b)
    \/ PumpUntil \/ FindLoop
    \/ \E call \in asked : Answer(call)
    \/ \E d \in Download :
          \/ \E c \in Window : OnDownloadStarted(d, c)
          \/ OnDlProgress(d) \/ DownloadEnds(d)
    \/ \E id \in DOMAIN g_downloads : downloadCancel(id)

Fairness == WF_vars(PumpUntil) /\ WF_vars(FindLoop) /\ WF_vars(\E c \in asked : Answer(c))

Spec == Init /\ [][Next]_vars /\ Fairness

-----------------------------------------------------------------------------
(***************************************************************************)
(* The context a request is answered into is a local variable of the       *)
(* handler that waits: WebKit never answers one whose handler has returned.*)
(***************************************************************************)
NoLateAnswer == \A call \in asked : FrameOf(call) # {}

(***************************************************************************)
(* A download of a context whose window was attached has one id, from its  *)
(* start to its end, however often the window is attached and whoever      *)
(* cancels it; g_downloads holds no download that is over, and of which    *)
(* WebKit will say nothing more.                                           *)
(***************************************************************************)
DownloadsTracked ==
    \A d \in Download :
        Cardinality(IdsOf(d)) = IF transfer[d] = "runs" /\ transferIn[d].tracked THEN 1 ELSE 0

(***************************************************************************)
(* docs/API.md:90: the events of session are "session.downloadStarted",    *)
(* and so on: a download that has an id was announced.                     *)
(***************************************************************************)
DownloadsAreAnnounced ==
    \A id \in DOMAIN g_downloads : <<"downloadStarted", id>> \in emitted

(***************************************************************************)
(* session_builtin.cpp:316: a download is given to the newest window "con  *)
(* attach".                                                                *)
(***************************************************************************)
GivenToAttached ==
    \A id \in DOMAIN g_downloads : g_downloads[id].win \in connected

(***************************************************************************)
(* A search uses the find controller of a view that exists.                *)
(***************************************************************************)
FindsInLiveView == faults = {}
=============================================================================
