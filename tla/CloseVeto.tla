----------------------------- MODULE CloseVeto -----------------------------
(***************************************************************************)
(* Closing one window with a veto (F3.4): Window::Impl::BeginCloseFlow,    *)
(* CloseTimerFired and RespondJsClose (src/src/Window/Window_common.cpp),  *)
(* the window's destruction and the deferred deletion of its C++ object.   *)
(*                                                                         *)
(* Everything here runs on the main thread, one handler at a time: each    *)
(* action is a whole handler.  What interleaves is the order of handlers:  *)
(* close requests, answers from the page and from the SDK (possibly late   *)
(* and repeated), timers, explicit Destroy, and the posted delete.         *)
(***************************************************************************)
EXTENDS Naturals, Sequences

CONSTANTS MaxRequests,  \* bound: close requests over the window's life
          StrayIds      \* request ids a client may send without being told them

ASSUME MaxRequestsAssumption == MaxRequests \in Nat
ASSUME StrayIdsAssumption == StrayIds \subseteq Nat

VARIABLES
    life,               \* "open", "destroyed" (GTK side gone) or "deleted"
    jsCloseSeq,         \* last request id given out
    jsCloseRequestId,   \* request in flight, 0 when there is none
    jsCloseResponded,
    closeRequestVeto,   \* set or cleared by a native closeRequested listener
    timers,             \* requests whose PlatformDelay has not fired, oldest first
    announced,          \* requests announced to the page
    destroys,           \* calls of gtk_widget_destroy on the window
    verdict,            \* history: what became of each request
    cause               \* history: what destroyed the window

vars == <<life, jsCloseSeq, jsCloseRequestId, jsCloseResponded,
          closeRequestVeto, timers, announced, destroys, verdict, cause>>

RequestId == 1 .. MaxRequests
Verdict == {"none", "pending", "vetoed", "denied", "allowed", "timeout"}

Init ==
    /\ life = "open"
    /\ jsCloseSeq = 0
    /\ jsCloseRequestId = 0
    /\ jsCloseResponded = FALSE
    /\ closeRequestVeto = FALSE
    /\ timers = <<>>
    /\ announced = {}
    /\ destroys = 0
    /\ verdict = [k \in RequestId |-> "none"]
    /\ cause = "none"

(***************************************************************************)
(* Destroy: the GTK window goes away, its "closed" listener takes the      *)
(* window out of LiveWindows and posts the deletion of the object.  A      *)
(* second call works on a GtkWidget that has been freed.                   *)
(***************************************************************************)
DestroyWindow(why) ==
    /\ destroys' = destroys + 1
    /\ life' = "destroyed"
    /\ cause' = IF life = "open" THEN why ELSE cause

KeepWindow == UNCHANGED <<life, destroys, cause>>

(***************************************************************************)
(* BeginCloseFlow, with no request in flight (with one it returns at       *)
(* once).  The native listeners run inside it and may veto.                *)
(***************************************************************************)
\* Fault: the timer is armed before the request has its id.
BeginCloseFlowTimerFirst ==
    /\ life = "open"
    /\ jsCloseRequestId = 0
    /\ jsCloseSeq < MaxRequests
    /\ jsCloseSeq' = jsCloseSeq + 1
    /\ jsCloseResponded' = FALSE
    /\ timers' = Append(timers, jsCloseSeq)
    /\ jsCloseRequestId' = jsCloseSeq'
    /\ announced' = announced \cup {jsCloseSeq'}
    /\ verdict' = [verdict EXCEPT ![jsCloseSeq'] = "pending"]
    /\ UNCHANGED closeRequestVeto
    /\ KeepWindow

\* Fault: no new timer while an earlier one is armed.
BeginCloseFlowOneTimer ==
    /\ life = "open"
    /\ jsCloseRequestId = 0
    /\ jsCloseSeq < MaxRequests
    /\ jsCloseSeq' = jsCloseSeq + 1
    /\ jsCloseResponded' = FALSE
    /\ timers' = IF timers = <<>> THEN <<jsCloseSeq'>> ELSE timers
    /\ jsCloseRequestId' = jsCloseSeq'
    /\ announced' = announced \cup {jsCloseSeq'}
    /\ verdict' = [verdict EXCEPT ![jsCloseSeq'] = "pending"]
    /\ UNCHANGED closeRequestVeto
    /\ KeepWindow

\* Fault: a request in flight does not stop the next one.
BeginCloseFlowOverlaps ==
    /\ life = "open"
    /\ jsCloseSeq < MaxRequests
    /\ jsCloseSeq' = jsCloseSeq + 1
    /\ jsCloseResponded' = FALSE
    /\ timers' = Append(timers, jsCloseSeq')
    /\ jsCloseRequestId' = jsCloseSeq'
    /\ announced' = announced \cup {jsCloseSeq'}
    /\ verdict' = [verdict EXCEPT ![jsCloseSeq'] = "pending"]
    /\ UNCHANGED closeRequestVeto
    /\ KeepWindow

BeginCloseFlow ==
    /\ life = "open"
    /\ jsCloseRequestId = 0
    /\ jsCloseSeq < MaxRequests
    /\ jsCloseSeq' = jsCloseSeq + 1
    /\ jsCloseResponded' = FALSE
    /\ \E veto \in BOOLEAN :
        /\ closeRequestVeto' = veto
        /\ verdict' = [verdict EXCEPT ![jsCloseSeq'] =
                           IF veto THEN "vetoed" ELSE "pending"]
        /\ jsCloseRequestId' = IF veto THEN 0 ELSE jsCloseSeq'
        /\ announced' = IF veto THEN announced ELSE announced \cup {jsCloseSeq'}
        /\ timers' = IF veto THEN timers ELSE Append(timers, jsCloseSeq')
    /\ KeepWindow

(***************************************************************************)
(* CloseTimerFired.  The timer does not say which request armed it; the    *)
(* object is deleted later than the window is destroyed, so the alive      *)
(* flag only stops timers that fire after the deletion.                    *)
(***************************************************************************)
CloseTimerFired ==
    /\ timers # <<>>
    /\ timers' = Tail(timers)
    /\ IF /\ life # "deleted"
          /\ ~jsCloseResponded
          /\ jsCloseRequestId # 0
       THEN /\ DestroyWindow("timeout")
            /\ verdict' = IF life = "open"
                          THEN [verdict EXCEPT ![jsCloseRequestId] = "timeout"]
                          ELSE verdict
       ELSE KeepWindow /\ UNCHANGED verdict
    /\ UNCHANGED <<jsCloseSeq, jsCloseRequestId, jsCloseResponded,
                   closeRequestVeto, announced>>

(***************************************************************************)
(* RespondJsClose, reached through LiveWindows only: from                  *)
(* window.respondCloseRequest on the control socket and from               *)
(* ow-window/respondCloseRequest, which a page reaches with ow.invokeSync  *)
(* (HandleInternalInvoke refuses it when it comes with ow.invoke).         *)
(***************************************************************************)
\* Fault: the answer is not compared with the request in flight.
RespondJsCloseAnyId(requestId, allow) ==
    /\ life = "open"
    /\ jsCloseResponded' = TRUE
    /\ jsCloseRequestId' = 0
    /\ IF allow THEN DestroyWindow("allowed") ELSE KeepWindow
    /\ verdict' = [verdict EXCEPT ![requestId] = IF allow THEN "allowed" ELSE "denied"]
    /\ UNCHANGED <<jsCloseSeq, closeRequestVeto, timers, announced>>

RespondJsClose(requestId, allow) ==
    /\ life = "open"
    /\ requestId = jsCloseRequestId
    /\ ~jsCloseResponded
    /\ jsCloseResponded' = TRUE
    /\ jsCloseRequestId' = 0
    /\ IF allow THEN DestroyWindow("allowed") ELSE KeepWindow
    /\ verdict' = IF requestId \in RequestId
                  THEN [verdict EXCEPT ![requestId] =
                            IF allow THEN "allowed" ELSE "denied"]
                  ELSE verdict
    /\ UNCHANGED <<jsCloseSeq, closeRequestVeto, timers, announced>>

Answer == \E id \in announced \cup StrayIds, allow \in BOOLEAN :
              RespondJsClose(id, allow)

\* Destroy() asked for directly: window.destroy on the control socket.
Destroy ==
    /\ life = "open"
    /\ DestroyWindow("destroy")
    /\ UNCHANGED <<jsCloseSeq, jsCloseRequestId, jsCloseResponded,
                   closeRequestVeto, timers, announced, verdict>>

\* The posted "delete dead": ~Impl clears the alive flag.
DeleteObject ==
    /\ life = "destroyed"
    /\ life' = "deleted"
    /\ UNCHANGED <<jsCloseSeq, jsCloseRequestId, jsCloseResponded,
                   closeRequestVeto, timers, announced, destroys, verdict, cause>>

Next ==
    \/ BeginCloseFlow
    \/ CloseTimerFired
    \/ Answer
    \/ Destroy
    \/ DeleteObject

(***************************************************************************)
(* GLib fires an armed timer and runs a posted callback.  Nobody has to    *)
(* close the window or to answer.                                          *)
(***************************************************************************)
Spec == Init /\ [][Next]_vars /\ WF_vars(CloseTimerFired) /\ WF_vars(DeleteObject)

-----------------------------------------------------------------------------
TypeOK ==
    /\ life \in {"open", "destroyed", "deleted"}
    /\ jsCloseSeq \in 0 .. MaxRequests
    /\ jsCloseRequestId \in 0 .. MaxRequests
    /\ jsCloseResponded \in BOOLEAN
    /\ closeRequestVeto \in BOOLEAN
    /\ timers \in Seq(RequestId)
    /\ announced \in SUBSET RequestId
    /\ destroys \in Nat
    /\ verdict \in [RequestId -> Verdict]
    /\ cause \in {"none", "allowed", "timeout", "destroy"}

(***************************************************************************)
(* A request in flight always has its own safety timer armed: whatever     *)
(* became of earlier requests and of their timers, an unanswered window    *)
(* does not stay open for ever.                                            *)
(***************************************************************************)
PendingHasTimer ==
    life = "open" /\ jsCloseRequestId # 0 =>
        \E k \in 1 .. Len(timers) : timers[k] = jsCloseRequestId

(***************************************************************************)
(* The window goes away for the reason its last request gives, or by an    *)
(* explicit Destroy; every request before the last one was refused.        *)
(***************************************************************************)
VerdictDecides ==
    /\ \A k \in RequestId :
        /\ k < jsCloseSeq => verdict[k] \in {"vetoed", "denied"}
        /\ k > jsCloseSeq => verdict[k] = "none"
        /\ verdict[k] \in {"allowed", "timeout"} => cause = verdict[k]
    /\ cause \in {"allowed", "timeout"} =>
        jsCloseSeq > 0 /\ verdict[jsCloseSeq] = cause

(***************************************************************************)
(* The first effective answer is final: no later answer, no repeated       *)
(* answer and no timer changes what became of a request.                   *)
(***************************************************************************)
SettledOnce ==
    [][\A k \in RequestId :
         verdict[k] \notin {"none", "pending"} => verdict'[k] = verdict[k]]_vars

(***************************************************************************)
(* F3.4 implements the contract of closing a window, with its liveness:    *)
(* a request put to the page is decided in the end.                        *)
(***************************************************************************)
Contract == INSTANCE CloseContract
              WITH phase <- IF life # "open" THEN "gone"
                            ELSE IF jsCloseRequestId # 0 THEN "asking" ELSE "open",
                   requests <- jsCloseSeq

ImplementsContract == Contract!Spec
ContractSafety == Contract!Init /\ [][Contract!Next]_(Contract!vars)

(***************************************************************************)
(* docs/BRIDGE.md: "Sin respuesta en OW_CLOSE_TIMEOUT_MS (default 1000) el *)
(* kernel cierra": a request times out when its own time is over, not when *)
(* the timer of an earlier, already answered request goes off.             *)
(***************************************************************************)
TimesOutOnItsOwnTimer ==
    [][\A k \in RequestId :
         verdict[k] = "pending" /\ verdict'[k] = "timeout" => Head(timers) = k]_vars

(***************************************************************************)
(* Window_p.hpp: jsCloseRequestId "0 = sin petición pendiente": with no    *)
(* request pending there is nothing to answer, so an answer does not close *)
(* the window.                                                             *)
(***************************************************************************)
AnswerNeedsRequest ==
    [][life = "open" /\ cause' = "allowed" => jsCloseRequestId # 0]_vars

(***************************************************************************)
(* Window_p.hpp: the alive flag lets deferred callbacks check "antes de    *)
(* tocar this (evita dangling tras Destroy)": a window that has been       *)
(* destroyed is not destroyed a second time by a deferred callback.        *)
(***************************************************************************)
DestroyedOnce == destroys <= 1
=============================================================================
