-------------------------- MODULE WindowLifecycle --------------------------
(***************************************************************************)
(* The life of the windows the SDK creates, on Linux: LiveWindows and the  *)
(* wiring of events (ControlServer.cpp), Window::Impl (Window_common.cpp), *)
(* the GTK window (window_linux.cpp), the events of native modules         *)
(* (ModuleLoader.cpp), and the callbacks all of them post to the main loop *)
(* (App_linux.cpp).                                                        *)
(*                                                                         *)
(* Every handler runs to completion on the main thread.  OnIdle takes all  *)
(* the posted callbacks and runs them with nothing in between; timers,     *)
(* commands and GTK signals are dispatched between two such batches, and   *)
(* a GLib timeout goes before an idle source.  Module threads post at any  *)
(* moment.                                                                 *)
(*                                                                         *)
(* Outbox models what one outbox does with its operations and CloseVeto    *)
(* what one close request goes through; here an outbox is the number of    *)
(* operations in it.                                                       *)
(***************************************************************************)
EXTENDS Naturals, Sequences, FiniteSets

CONSTANTS MaxWindows,   \* bound: windows created
          MaxRequests,  \* bound: close requests of one window
          MaxEvents,    \* bound: GTK events, module events and page events, together
          PageEvents    \* kinds of names the pages use in ow.emit

VARIABLES
    created,            \* windows created so far; ids are 1 .. created
    live,               \* LiveWindows
    widget,             \* GTK side: "none", "up", "gone"
    object,             \* the Window and its Impl: "none", "alive", "deleted"
    jsCloseSeq, jsCloseRequestId, jsCloseResponded,
    queued,             \* operations in the window's outbox
    outboxScheduled,
    posts,              \* callbacks posted with App::Post, oldest first
    batch,              \* how many of them OnIdle is running
    timers,             \* windows whose close timer is armed, oldest first
    toSdk,              \* history: lines sent to the SDK about windows
    events,             \* events emitted so far
    cause,              \* history: what destroyed the window
    faults              \* history: uses of memory that is gone

windowVars == <<created, live, widget, object, cause>>
closeVars == <<jsCloseSeq, jsCloseRequestId, jsCloseResponded, timers>>
outboxVars == <<queued, outboxScheduled>>
loopVars == <<posts, batch>>
vars == <<windowVars, closeVars, outboxVars, loopVars, toSdk, events, faults>>

Bounds == MaxWindows \in Nat /\ MaxRequests \in Nat /\ MaxEvents \in Nat

Window == 1 .. MaxWindows
Line == {"created", "event", "closeRequested", "closed"} \X Window
Callback == [do : {"flush", "delete"}, win : Window]
            \cup [do : {"emit"}, win : Window \cup {0}]
Fault == {"evalOnDeadView", "destroyTwice", "deletedObject"}

Init ==
    /\ created = 0
    /\ live = {}
    /\ widget = [w \in Window |-> "none"]
    /\ object = [w \in Window |-> "none"]
    /\ cause = [w \in Window |-> "none"]
    /\ jsCloseSeq = [w \in Window |-> 0]
    /\ jsCloseRequestId = [w \in Window |-> 0]
    /\ jsCloseResponded = [w \in Window |-> FALSE]
    /\ timers = <<>>
    /\ queued = [w \in Window |-> 0]
    /\ outboxScheduled = [w \in Window |-> FALSE]
    /\ posts = <<>>
    /\ batch = 0
    /\ toSdk = <<>>
    /\ events = 0
    /\ faults = {}

\* The main thread is between two dispatches of the main context.
Idle == batch = 0

CountEvent == events < MaxEvents /\ events' = events + 1

(***************************************************************************)
(* EnqueueOp and ScheduleFlush for every window of ws, in the order of     *)
(* LiveWindows (a map sorted by id); rest is what stays posted.            *)
(***************************************************************************)
Ascending(ws) ==
    CHOOSE ids \in [1 .. Cardinality(ws) -> ws] :
        \A j, k \in 1 .. Cardinality(ws) : j < k => ids[j] < ids[k]

FlushPosts(ws) ==
    LET ids == Ascending({w \in ws : ~outboxScheduled[w]}) IN
    [k \in DOMAIN ids |-> [do |-> "flush", win |-> ids[k]]]

EmitToJS(ws, rest) ==
    /\ queued' = [w \in Window |-> IF w \in ws THEN queued[w] + 1 ELSE queued[w]]
    /\ outboxScheduled' = [w \in Window |-> outboxScheduled[w] \/ w \in ws]
    /\ posts' = rest \o FlushPosts(ws)

(***************************************************************************)
(* PDestroy of window w.  GTK emits "destroy" while it disposes of the     *)
(* window: the closed listener of WireWindowEvents takes the window out of *)
(* LiveWindows, tells the SDK and posts the deletion; then the event goes  *)
(* to the outbox like any other.  pdata->window is left pointing at the    *)
(* freed widget: a second call uses it.                                    *)
(***************************************************************************)
DeletePost(w) == [do |-> "delete", win |-> w]

\* Fault: the closed listener leaves the window in LiveWindows.
PDestroyKeepsLive(w, why) ==
    IF widget[w] = "up"
    THEN /\ widget' = [widget EXCEPT ![w] = "gone"]
         /\ cause' = [cause EXCEPT ![w] = why]
         /\ toSdk' = Append(toSdk, <<"closed", w>>)
         /\ EmitToJS({w}, Append(posts, DeletePost(w)))
         /\ UNCHANGED <<created, live, object, faults>>
    ELSE /\ faults' = faults \cup {"destroyTwice"}
         /\ UNCHANGED <<windowVars, toSdk, outboxVars, posts>>

\* Fault: the closed listener does not check that the window is still in
\* LiveWindows, and a second gtk_widget_destroy emits "destroy" again.
PDestroyNoLookup(w, why) ==
    /\ widget' = [widget EXCEPT ![w] = "gone"]
    /\ cause' = [cause EXCEPT ![w] = IF widget[w] = "up" THEN why ELSE @]
    /\ live' = live \ {w}
    /\ toSdk' = Append(toSdk, <<"closed", w>>)
    /\ EmitToJS({w}, Append(posts, DeletePost(w)))
    /\ UNCHANGED <<created, object, faults>>

\* Fault: the closed listener forgets to post the deletion.
PDestroyLeaks(w, why) ==
    IF widget[w] = "up"
    THEN /\ widget' = [widget EXCEPT ![w] = "gone"]
         /\ cause' = [cause EXCEPT ![w] = why]
         /\ live' = live \ {w}
         /\ toSdk' = Append(toSdk, <<"closed", w>>)
         /\ EmitToJS({w}, posts)
         /\ UNCHANGED <<created, object, faults>>
    ELSE /\ faults' = faults \cup {"destroyTwice"}
         /\ UNCHANGED <<windowVars, toSdk, outboxVars, posts>>

PDestroy(w, why) ==
    IF widget[w] = "up"
    THEN /\ widget' = [widget EXCEPT ![w] = "gone"]
         /\ cause' = [cause EXCEPT ![w] = why]
         /\ live' = live \ {w}
         /\ toSdk' = Append(toSdk, <<"closed", w>>)
         /\ EmitToJS({w}, Append(posts, DeletePost(w)))
         /\ UNCHANGED <<created, object, faults>>
    ELSE /\ faults' = faults \cup {"destroyTwice"}
         /\ UNCHANGED <<windowVars, toSdk, outboxVars, posts>>

(***************************************************************************)
(* Commands of the SDK.  HandleCommand looks windows up in LiveWindows.    *)
(***************************************************************************)
WindowCreate ==
    /\ Idle
    /\ created < MaxWindows
    /\ created' = created + 1
    /\ live' = live \cup {created'}
    /\ widget' = [widget EXCEPT ![created'] = "up"]
    /\ object' = [object EXCEPT ![created'] = "alive"]
    /\ toSdk' = Append(toSdk, <<"created", created'>>)
    /\ UNCHANGED <<cause, closeVars, outboxVars, loopVars, events, faults>>

WindowDestroy(w) ==
    /\ Idle
    /\ w \in live
    /\ PDestroy(w, "destroy")
    /\ UNCHANGED <<closeVars, batch, events>>

\* window.respondCloseRequest with the id of the request in flight.  Any other
\* id RespondJsClose refuses at once, but for the id 0 that CloseVeto examines.
RespondCloseRequest(w, allow) ==
    /\ Idle
    /\ w \in live
    /\ jsCloseRequestId[w] # 0
    /\ ~jsCloseResponded[w]
    /\ jsCloseResponded' = [jsCloseResponded EXCEPT ![w] = TRUE]
    /\ jsCloseRequestId' = [jsCloseRequestId EXCEPT ![w] = 0]
    /\ IF allow
       THEN PDestroy(w, "allowed")
       ELSE UNCHANGED <<windowVars, toSdk, outboxVars, posts, faults>>
    /\ UNCHANGED <<jsCloseSeq, timers, batch, events>>

(***************************************************************************)
(* BeginCloseFlow, from window.close or from the window manager            *)
(* ("delete-event").  WireWindowEvents installs no closeRequested          *)
(* listener, so nothing vetoes and nothing is sent to the SDK.             *)
(***************************************************************************)
BeginCloseFlow(w) ==
    /\ Idle
    /\ widget[w] = "up"
    /\ jsCloseRequestId[w] = 0
    /\ jsCloseSeq[w] < MaxRequests
    /\ jsCloseSeq' = [jsCloseSeq EXCEPT ![w] = @ + 1]
    /\ jsCloseRequestId' = [jsCloseRequestId EXCEPT ![w] = jsCloseSeq'[w]]
    /\ jsCloseResponded' = [jsCloseResponded EXCEPT ![w] = FALSE]
    /\ EmitToJS({w}, posts)
    /\ timers' = Append(timers, w)
    /\ UNCHANGED <<windowVars, batch, toSdk, events, faults>>

\* Fault: the timer does not look at the alive flag.
CloseTimerUnguarded ==
    /\ Idle
    /\ timers # <<>>
    /\ timers' = Tail(timers)
    /\ LET w == Head(timers) IN
       IF object[w] = "deleted"
       THEN /\ faults' = faults \cup {"deletedObject"}
            /\ UNCHANGED <<windowVars, toSdk, outboxVars, posts>>
       ELSE IF ~jsCloseResponded[w] /\ jsCloseRequestId[w] # 0
            THEN PDestroy(w, "timeout")
            ELSE UNCHANGED <<windowVars, toSdk, outboxVars, posts, faults>>
    /\ UNCHANGED <<jsCloseSeq, jsCloseRequestId, jsCloseResponded, batch, events>>

\* Fault: the timer does not look at what became of the request.
CloseTimerUnchecked ==
    /\ Idle
    /\ timers # <<>>
    /\ timers' = Tail(timers)
    /\ LET w == Head(timers) IN
       IF object[w] = "alive"
       THEN PDestroy(w, "timeout")
       ELSE UNCHANGED <<windowVars, toSdk, outboxVars, posts, faults>>
    /\ UNCHANGED <<jsCloseSeq, jsCloseRequestId, jsCloseResponded, batch, events>>

CloseTimerFired ==
    /\ Idle
    /\ timers # <<>>
    /\ timers' = Tail(timers)
    /\ LET w == Head(timers) IN
       IF object[w] = "alive" /\ ~jsCloseResponded[w] /\ jsCloseRequestId[w] # 0
       THEN PDestroy(w, "timeout")
       ELSE UNCHANGED <<windowVars, toSdk, outboxVars, posts, faults>>
    /\ UNCHANGED <<jsCloseSeq, jsCloseRequestId, jsCloseResponded, batch, events>>

(***************************************************************************)
(* Events.  A GTK event of a window that is up goes to the SDK (the        *)
(* listeners of WireWindowEvents) and to the page.                         *)
(***************************************************************************)
EmitPlatformEvent(w) ==
    /\ Idle
    /\ widget[w] = "up"
    /\ CountEvent
    /\ toSdk' = Append(toSdk, <<"event", w>>)
    /\ EmitToJS({w}, posts)
    /\ faults' = IF object[w] = "alive" THEN faults ELSE faults \cup {"deletedObject"}
    /\ UNCHANGED <<windowVars, closeVars, batch>>

\* A page sends an event to another window (ow.emitTo): the target is looked
\* up in LiveWindows and may be gone.
EmitTo(from, to) ==
    /\ Idle
    /\ widget[from] = "up" /\ from # to
    /\ CountEvent
    /\ EmitToJS({to} \cap live, posts)
    /\ UNCHANGED <<windowVars, closeVars, batch, toSdk, faults>>

(***************************************************************************)
(* A page sends an event to the kernel (ow.emit): HandleWebViewMessage     *)
(* gives it to the window's native listeners, the same ones the window's   *)
(* own events go to.                                                       *)
(***************************************************************************)
PageEvent(w, name) ==
    /\ Idle
    /\ widget[w] = "up"
    /\ CountEvent
    /\ toSdk' = IF name = "forwarded" THEN Append(toSdk, <<"event", w>>)
                ELSE IF name = "closed" /\ w \in live THEN Append(toSdk, <<"closed", w>>)
                ELSE toSdk
    /\ live' = IF name = "closed" THEN live \ {w} ELSE live
    /\ posts' = IF name = "closed" /\ w \in live THEN Append(posts, DeletePost(w)) ELSE posts
    /\ UNCHANGED <<created, widget, object, cause, closeVars, outboxVars, batch, faults>>

\* HostEmitEvent, called from a module's thread; win = 0 addresses all.
HostEmitEvent(win) ==
    /\ CountEvent
    /\ posts' = Append(posts, [do |-> "emit", win |-> win])
    /\ UNCHANGED <<windowVars, closeVars, outboxVars, batch, toSdk, faults>>

(***************************************************************************)
(* OnIdle: take what is posted, run it.                                    *)
(***************************************************************************)
OnIdle ==
    /\ Idle
    /\ posts # <<>>
    /\ batch' = Len(posts)
    /\ UNCHANGED <<windowVars, closeVars, outboxVars, posts, toSdk, events, faults>>

NextPostIs(do) ==
    /\ batch > 0
    /\ Head(posts).do = do
    /\ batch' = batch - 1

\* Fault: the flush does not look at the alive flag.
RunFlushUnguarded ==
    LET w == Head(posts).win IN
    /\ NextPostIs("flush")
    /\ posts' = Tail(posts)
    /\ queued' = [queued EXCEPT ![w] = 0]
    /\ outboxScheduled' = [outboxScheduled EXCEPT ![w] = FALSE]
    /\ faults' = faults \cup (IF object[w] = "deleted" THEN {"deletedObject"} ELSE {})
    /\ UNCHANGED <<windowVars, closeVars, toSdk, events>>

(***************************************************************************)
(* The flush of window w: it does nothing once the object is deleted, and  *)
(* otherwise hands the outbox to the webview, whose view_ pointer it does  *)
(* not look at: GTK destroyed the view together with the window.           *)
(***************************************************************************)
RunFlush ==
    LET w == Head(posts).win IN
    /\ NextPostIs("flush")
    /\ posts' = Tail(posts)
    /\ IF object[w] = "alive"
       THEN /\ queued' = [queued EXCEPT ![w] = 0]
            /\ outboxScheduled' = [outboxScheduled EXCEPT ![w] = FALSE]
            /\ faults' = IF widget[w] = "gone" /\ queued[w] > 0
                         THEN faults \cup {"evalOnDeadView"} ELSE faults
       ELSE UNCHANGED <<outboxVars, faults>>
    /\ UNCHANGED <<windowVars, closeVars, toSdk, events>>

RunDelete ==
    LET w == Head(posts).win IN
    /\ NextPostIs("delete")
    /\ posts' = Tail(posts)
    /\ object' = [object EXCEPT ![w] = "deleted"]
    /\ UNCHANGED <<created, live, widget, cause, closeVars, outboxVars,
                   toSdk, events, faults>>

\* The posted half of HostEmitEvent: the window is looked up when it runs.
RunEmit ==
    LET w == Head(posts).win IN
    /\ NextPostIs("emit")
    /\ EmitToJS(IF w = 0 THEN live ELSE {w} \cap live, Tail(posts))
    /\ UNCHANGED <<windowVars, closeVars, toSdk, events, faults>>

Next ==
    \/ WindowCreate
    \/ \E w \in Window :
        \/ WindowDestroy(w)
        \/ BeginCloseFlow(w)
        \/ EmitPlatformEvent(w)
        \/ HostEmitEvent(w)
        \/ \E allow \in BOOLEAN : RespondCloseRequest(w, allow)
        \/ \E to \in Window : EmitTo(w, to)
        \/ \E name \in PageEvents : PageEvent(w, name)
    \/ HostEmitEvent(0)
    \/ CloseTimerFired
    \/ OnIdle \/ RunFlush \/ RunDelete \/ RunEmit

Fairness ==
    /\ WF_vars(CloseTimerFired)
    /\ WF_vars(OnIdle) /\ WF_vars(RunFlush \/ RunDelete \/ RunEmit)

Spec == Init /\ [][Next]_vars /\ Fairness

-----------------------------------------------------------------------------
TypeOK ==
    /\ created \in 0 .. MaxWindows
    /\ live \in SUBSET Window
    /\ widget \in [Window -> {"none", "up", "gone"}]
    /\ object \in [Window -> {"none", "alive", "deleted"}]
    /\ cause \in [Window -> {"none", "destroy", "allowed", "timeout"}]
    /\ jsCloseSeq \in [Window -> 0 .. MaxRequests]
    /\ jsCloseRequestId \in [Window -> 0 .. MaxRequests]
    /\ jsCloseResponded \in [Window -> BOOLEAN]
    /\ timers \in Seq(Window)
    /\ queued \in [Window -> Nat]
    /\ outboxScheduled \in [Window -> BOOLEAN]
    /\ posts \in Seq(Callback)
    /\ batch \in 0 .. Len(posts)
    /\ toSdk \in Seq(Line)
    /\ events \in 0 .. MaxEvents
    /\ faults \in SUBSET Fault

(***************************************************************************)
(* The raw pointers in LiveWindows are good: an entry is a window whose    *)
(* object exists and whose GTK window is up, and every such window is in   *)
(* the map.                                                                *)
(***************************************************************************)
LiveIsUsable ==
    \A w \in Window : w \in live <=> widget[w] = "up" /\ object[w] = "alive"

(***************************************************************************)
(* The object of a destroyed window is deleted exactly once: its deletion  *)
(* is posted once, and stays posted until it runs.                         *)
(***************************************************************************)
Posted(do, w) == {k \in 1 .. Len(posts) : posts[k] = [do |-> do, win |-> w]}

DeletedExactlyOnce ==
    \A w \in Window :
        Cardinality(Posted("delete", w)) =
            IF widget[w] = "gone" /\ object[w] = "alive" THEN 1 ELSE 0

(***************************************************************************)
(* A deferred callback (flush or close timer) never touches a deleted      *)
(* object: ~Impl cleared the alive flag first.                             *)
(***************************************************************************)
NoUseAfterDelete == "deletedObject" \notin faults

(***************************************************************************)
(* What the SDK sees of a window: the answer to window.create, then        *)
(* events, then "closed", once, and nothing after it.                      *)
(***************************************************************************)
SdkSeesOrderedLife ==
    \A k \in 1 .. Len(toSdk) :
        LET w == toSdk[k][2] IN
        /\ toSdk[k][1] = "created" <=> \A j \in 1 .. k - 1 : toSdk[j][2] # w
        /\ toSdk[k][1] = "closed" =>
              w \notin live /\ \A j \in k + 1 .. Len(toSdk) : toSdk[j][2] # w

(***************************************************************************)
(* Every destroyed window is eventually deleted.                           *)
(***************************************************************************)
EventuallyDeleted ==
    \A w \in Window : widget[w] = "gone" ~> object[w] = "deleted"

(***************************************************************************)
(* Each window keeps the contract of closing a window.                     *)
(***************************************************************************)
Phase(w) ==
    IF widget[w] = "gone" THEN "gone"
    ELSE IF jsCloseRequestId[w] # 0 THEN "asking" ELSE "open"

Contract(w) == INSTANCE CloseContract
                 WITH phase <- Phase(w), requests <- jsCloseSeq[w], cause <- cause[w]

KeepsContract ==
    /\ \A w \in Window : Contract(w)!Init
    /\ [][\A w \in Window : Contract(w)!Next \/ UNCHANGED Contract(w)!vars]_vars

(***************************************************************************)
(* Window_p.hpp: the alive flag lets deferred callbacks check "antes de    *)
(* tocar this (evita dangling tras Destroy)": a flush that was posted      *)
(* before Destroy does not use the destroyed webview.                      *)
(***************************************************************************)
NoEvalOnDeadView == "evalOnDeadView" \notin faults

(***************************************************************************)
(* ControlServer.cpp: the closed listener "destruye el objeto C++ fuera    *)
(* del signal handler de GTK": it runs when GTK has destroyed the window,  *)
(* and the SDK hears "closed" of no other window.                          *)
(***************************************************************************)
ClosedMeansGone ==
    \A k \in 1 .. Len(toSdk) : toSdk[k][1] = "closed" => widget[toSdk[k][2]] = "gone"

(***************************************************************************)
(* ControlServer.cpp: "closeRequested se reenvía al SDK con requestId":    *)
(* a close request put to the page is also sent to the SDK.                *)
(***************************************************************************)
CloseRequestReachesSdk ==
    [][\A w \in Window :
         jsCloseRequestId[w] = 0 /\ jsCloseRequestId'[w] # 0 =>
             \E k \in (Len(toSdk) + 1) .. Len(toSdk') :
                 toSdk'[k] = <<"closeRequested", w>>]_vars
=============================================================================
