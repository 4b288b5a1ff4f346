------------------------------- MODULE Bridge -------------------------------
(***************************************************************************)
(* The bridge between the pages of one window and the kernel: the script   *)
(* injected in every document (src/src/Bridge/BridgeScript.cpp), the       *)
(* handling of an invoke (HandleWebViewMessage and HandleInternalInvoke in *)
(* src/src/Window/Window_common.cpp, Dispatcher::Execute) and the two ways *)
(* a result goes back: evaluated at once, or through the outbox.           *)
(*                                                                         *)
(* Documents live in frames.  Each document numbers its calls from 1 and   *)
(* has its own map of pending promises, but the kernel is told the number  *)
(* only, and evaluates results in the main frame.  Messages to the kernel  *)
(* and scripts to the page travel in order.                                *)
(*                                                                         *)
(* A module function runs to completion on the main thread, or it runs a   *)
(* nested main loop (gtk_dialog_run, PumpUntil) in which other messages    *)
(* and posted callbacks are dispatched until it returns.                   *)
(***************************************************************************)
EXTENDS Naturals, Sequences, FiniteSets, SequencesExt

CONSTANTS Frames, Main,   \* frames of the page, the main one among them
          Kinds,          \* kinds of calls the pages make
          MaxCalls,       \* bound: calls of one document
          MaxLoads        \* bound: documents loaded in the main frame


VARIABLES
    load,               \* documents loaded in the main frame so far
    nextId,             \* nextId[f]: of the document in frame f
    pending,            \* pending[f]: ids in its pending map
    toKernel,           \* messages sent and not handled
    stack,              \* modal calls being executed, innermost last
    outbox, flushPosted,
    toPage,             \* scripts not evaluated yet, each a sequence of results
    object,             \* the Window: "alive" or "deleted"
    promise,            \* history: what became of each call
    executed,           \* history: calls executed
    resultOf,           \* history: resultOf[c]: the calls whose result c got
    faults              \* history: uses of the Window after its deletion

pageVars == <<load, nextId, pending>>
sendVars == <<outbox, flushPosted, toPage>>
vars == <<pageVars, toKernel, stack, sendVars, object, promise, executed,
          resultOf, faults>>

Call == [frame : Frames, load : 1 .. MaxLoads, id : 1 .. MaxCalls]

Init ==
    /\ load = 1
    /\ nextId = [f \in Frames |-> 1]
    /\ pending = [f \in Frames |-> {}]
    /\ toKernel = <<>>
    /\ stack = <<>>
    /\ outbox = <<>>
    /\ flushPosted = FALSE
    /\ toPage = <<>>
    /\ object = "alive"
    /\ promise = [c \in Call |-> "none"]
    /\ executed = {}
    /\ resultOf = [c \in Call |-> {}]
    /\ faults = {}

CallOf(f, id) == [frame |-> f, load |-> load, id |-> id]

(***************************************************************************)
(* The page: ow.invoke, its 30 s timer, and a new document in the main     *)
(* frame (which takes the other frames away with it).                      *)
(***************************************************************************)
Invoke(f, kind) ==
    LET c == CallOf(f, nextId[f]) IN
    /\ object = "alive"
    /\ nextId[f] <= MaxCalls
    /\ nextId' = [nextId EXCEPT ![f] = @ + 1]
    /\ pending' = [pending EXCEPT ![f] = @ \cup {nextId[f]}]
    /\ toKernel' = Append(toKernel, [call |-> c, kind |-> kind])
    /\ promise' = [promise EXCEPT ![c] = "waiting"]
    /\ UNCHANGED <<load, stack, sendVars, object, executed, resultOf, faults>>

\* Fault: the timer rejects the promise and leaves it in the map.
TimeOutKeepsPending(f, id) ==
    /\ id \in pending[f]
    /\ promise' = [promise EXCEPT ![CallOf(f, id)] = "timeout"]
    /\ UNCHANGED <<pageVars, toKernel, stack, sendVars, object, executed,
                   resultOf, faults>>

TimeOut(f, id) ==
    /\ id \in pending[f]
    /\ pending' = [pending EXCEPT ![f] = @ \ {id}]
    /\ promise' = [promise EXCEPT ![CallOf(f, id)] = "timeout"]
    /\ UNCHANGED <<load, nextId, toKernel, stack, sendVars, object, executed,
                   resultOf, faults>>

Dropped(calls) ==
    promise' = [c \in Call |-> IF c \in calls THEN "dropped" ELSE promise[c]]

Waiting == {CallOf(f, id) : f \in Frames, id \in 1 .. MaxCalls}
               \cap {c \in Call : promise[c] = "waiting"}

Reload ==
    /\ object = "alive"
    /\ load < MaxLoads
    /\ load' = load + 1
    /\ nextId' = [f \in Frames |-> 1]
    /\ pending' = [f \in Frames |-> {}]
    /\ Dropped(Waiting)
    /\ UNCHANGED <<toKernel, stack, sendVars, object, executed, resultOf, faults>>

(***************************************************************************)
(* The kernel.  A result is evaluated in the page directly, or queued in   *)
(* the outbox (respond in HandleInternalInvoke).                           *)
(***************************************************************************)
EvalJS(call) ==
    /\ toPage' = Append(toPage, <<call>>)
    /\ UNCHANGED <<outbox, flushPosted>>

\* Fault: the result is queued and no flush is scheduled.
RespondNoFlush(call) ==
    /\ outbox' = Append(outbox, call)
    /\ UNCHANGED <<toPage, flushPosted>>

Respond(call) ==
    /\ outbox' = Append(outbox, call)
    /\ flushPosted' = TRUE
    /\ UNCHANGED toPage

HandleWebViewMessage ==
    LET call == Head(toKernel).call
        kind == Head(toKernel).kind IN
    /\ object = "alive"
    /\ toKernel # <<>>
    /\ toKernel' = Tail(toKernel)
    /\ executed' = executed \cup {call}
    /\ CASE kind = "plain" -> EvalJS(call) /\ UNCHANGED stack
         [] kind = "modal" -> stack' = Append(stack, call) /\ UNCHANGED sendVars
         [] kind = "internal" -> Respond(call) /\ UNCHANGED stack
    /\ UNCHANGED <<pageVars, object, promise, resultOf, faults>>

(***************************************************************************)
(* The innermost nested loop ends and the handler goes on: it evaluates    *)
(* the result through this->webview, without looking at the alive flag.    *)
(***************************************************************************)
ModalReturns ==
    /\ stack # <<>>
    /\ stack' = Front(stack)
    /\ IF object = "alive"
       THEN EvalJS(Last(stack)) /\ UNCHANGED faults
       ELSE faults' = faults \cup {"deletedObject"} /\ UNCHANGED sendVars
    /\ UNCHANGED <<pageVars, toKernel, object, promise, executed, resultOf>>

FlushOutbox ==
    /\ flushPosted
    /\ flushPosted' = FALSE
    /\ IF object = "alive"
       THEN toPage' = Append(toPage, outbox) /\ outbox' = <<>>
       ELSE UNCHANGED <<toPage, outbox>>
    /\ UNCHANGED <<pageVars, toKernel, stack, object, promise, executed,
                   resultOf, faults>>

(***************************************************************************)
(* The page runs a script: _apply for one result, _batch for several.  A   *)
(* result whose id is not pending in the main frame is ignored.            *)
(***************************************************************************)
\* The calls of the main frame a script settles.
Settled(script) ==
    {CallOf(Main, id) : id \in pending[Main] \cap {c.id : c \in ToSet(script)}}

Received(script) ==
    resultOf' = [c \in Call |->
        IF c \in Settled(script)
        THEN resultOf[c] \cup {r \in ToSet(script) : r.id = c.id} ELSE resultOf[c]]

\* Fault: a result goes to the oldest promise and not to the one of its id.
EvalScriptInOrder ==
    LET oldest == {id \in pending[Main] : \A other \in pending[Main] : id <= other}
        calls == {CallOf(Main, id) : id \in oldest} IN
    /\ object = "alive"
    /\ toPage # <<>>
    /\ toPage' = Tail(toPage)
    /\ pending' = [pending EXCEPT ![Main] = @ \ oldest]
    /\ promise' = [c \in Call |-> IF c \in calls THEN "settled" ELSE promise[c]]
    /\ resultOf' = [c \in Call |-> IF c \in calls THEN ToSet(Head(toPage)) ELSE resultOf[c]]
    /\ UNCHANGED <<load, nextId, toKernel, stack, outbox, flushPosted, object,
                   executed, faults>>

\* Fault: a result leaves its promise in the map.
EvalScriptKeepsPending ==
    /\ object = "alive"
    /\ toPage # <<>>
    /\ toPage' = Tail(toPage)
    /\ Received(Head(toPage))
    /\ promise' = [c \in Call |-> IF c \in Settled(Head(toPage)) THEN "settled" ELSE promise[c]]
    /\ UNCHANGED <<pageVars, toKernel, stack, outbox, flushPosted, object,
                   executed, faults>>

EvalScript ==
    /\ object = "alive"
    /\ toPage # <<>>
    /\ toPage' = Tail(toPage)
    /\ pending' = [pending EXCEPT ![Main] = @ \ {c.id : c \in ToSet(Head(toPage))}]
    /\ Received(Head(toPage))
    /\ promise' = [c \in Call |-> IF c \in Settled(Head(toPage)) THEN "settled" ELSE promise[c]]
    /\ UNCHANGED <<load, nextId, toKernel, stack, outbox, flushPosted, object,
                   executed, faults>>

(***************************************************************************)
(* The window is destroyed and its object deleted, on the main loop or in  *)
(* a nested one (WindowLifecycle has the steps).  The page goes with it.   *)
(***************************************************************************)
DeleteWindow ==
    /\ object = "alive"
    /\ object' = "deleted"
    /\ pending' = [f \in Frames |-> {}]
    /\ toKernel' = <<>>
    /\ toPage' = <<>>
    /\ Dropped(Waiting)
    /\ UNCHANGED <<load, nextId, stack, outbox, flushPosted, executed, resultOf, faults>>

Next ==
    \/ \E f \in Frames :
        \/ \E kind \in Kinds : Invoke(f, kind)
        \/ \E id \in 1 .. MaxCalls : TimeOut(f, id)
    \/ Reload
    \/ HandleWebViewMessage \/ ModalReturns \/ FlushOutbox
    \/ EvalScript
    \/ DeleteWindow

(***************************************************************************)
(* The two event loops run.  Nothing is assumed of the 30 s timers, nor of *)
(* the user who is to answer a modal dialog.                               *)
(***************************************************************************)
Fairness ==
    WF_vars(HandleWebViewMessage) /\ WF_vars(FlushOutbox) /\ WF_vars(EvalScript)

Spec == Init /\ [][Next]_vars /\ Fairness

-----------------------------------------------------------------------------
TypeOK ==
    /\ load \in 1 .. MaxLoads
    /\ nextId \in [Frames -> 1 .. MaxCalls + 1]
    /\ pending \in [Frames -> SUBSET (1 .. MaxCalls)]
    /\ toKernel \in Seq([call : Call, kind : Kinds])
    /\ stack \in Seq(Call)
    /\ outbox \in Seq(Call)
    /\ flushPosted \in BOOLEAN
    /\ toPage \in Seq(Seq(Call))
    /\ object \in {"alive", "deleted"}
    /\ promise \in [Call -> {"none", "waiting", "settled", "timeout", "dropped"}]
    /\ executed \in SUBSET Call
    /\ resultOf \in [Call -> SUBSET Call]
    /\ faults \subseteq {"deletedObject"}

(***************************************************************************)
(* docs/BRIDGE.md: the promise of ow.invoke is of that call: it gets the   *)
(* result of its own call, and of no other.                                *)
(***************************************************************************)
OwnResult == \A c \in Call : resultOf[c] \subseteq {c}

(***************************************************************************)
(* As long as the document stays, it holds: the direct way, the outbox,    *)
(* nested loops and time-outs deliver results in any order, and the id     *)
(* alone tells them apart.                                                 *)
(***************************************************************************)
OwnResultWithoutReload == load = 1 => OwnResult

(***************************************************************************)
(* A modal call does not hold up the others: a call that is executed and   *)
(* is not modal (or has returned) is settled even while dialogs stay open  *)
(* for ever, without the help of its timer.                                *)
(***************************************************************************)
EventuallySettled ==
    \A c \in Call : promise[c] = "waiting" ~> promise[c] # "waiting" \/ c \in ToSet(stack)

(***************************************************************************)
(* Even when documents are reloaded under it, a promise settles once: a    *)
(* late result does not resolve what its timer rejected, and the timer     *)
(* does not reject what was resolved.                                      *)
(***************************************************************************)
SettledOnce ==
    [][\A c \in Call :
         promise[c] \in {"settled", "timeout", "dropped"} => promise'[c] = promise[c]]_vars

(***************************************************************************)
(* As long as the document stays, the bridge implements the contract of    *)
(* ow.invoke; after a reload a late result settles a call of its number.   *)
(***************************************************************************)
Contract == INSTANCE RpcContract

KeepsContractWithoutReload ==
    /\ Contract!Init
    /\ [][load = 1 => Contract!Next \/ UNCHANGED Contract!vars]_vars

(***************************************************************************)
(* Window_p.hpp: the alive flag is there to avoid "dangling tras Destroy": *)
(* a handler that comes back from a nested loop does not use a window that *)
(* was deleted meanwhile.                                                  *)
(***************************************************************************)
HandlersOutliveNoWindow == faults = {}
=============================================================================
