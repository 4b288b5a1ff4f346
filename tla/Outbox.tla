------------------------------- MODULE Outbox -------------------------------
(***************************************************************************)
(* The outbox of one window (F3.2): EnqueueOp, ScheduleFlush and           *)
(* FlushOutbox (src/src/Window/Window_common.cpp).                         *)
(*                                                                         *)
(* EnqueueOp and ScheduleFlush take outboxMu separately, and App::Post is  *)
(* called after the second unlock, so with several emitting threads (or a  *)
(* flush that runs on the main thread meanwhile) an emission has three     *)
(* steps others can see.  FlushOutbox clears the flag and swaps the        *)
(* operations out in one critical section, then evaluates them in the page *)
(* as one script.                                                          *)
(***************************************************************************)
EXTENDS Naturals, Sequences

CONSTANTS Emitters,   \* threads that emit
          MaxOps      \* bound: operations each thread emits

ASSUME MaxOpsAssumption == MaxOps \in Nat \ {0}

VARIABLES
    outbox,
    outboxScheduled,
    pc,               \* pc[e]: "idle", "queued" (op enqueued), "post" (flag set)
    flushes,          \* flush callbacks posted to the main loop and not run
    alive,            \* the window object exists (alive flag)
    hasView,          \* a webview backend was created
    emitted,          \* emitted[e]: operations e has emitted
    delivered,        \* history: operations evaluated in the page, in order
    evals             \* history: scripts evaluated

vars == <<outbox, outboxScheduled, pc, flushes, alive, hasView,
          emitted, delivered, evals>>

Op == Emitters \X (1 .. MaxOps)

Init ==
    /\ outbox = <<>>
    /\ outboxScheduled = FALSE
    /\ pc = [e \in Emitters |-> "idle"]
    /\ flushes = 0
    /\ alive = TRUE
    /\ hasView \in BOOLEAN
    /\ emitted = [e \in Emitters |-> 0]
    /\ delivered = <<>>
    /\ evals = 0

\* Fault: the operation is queued before it has its number.
EnqueueOpUnnumbered(e) ==
    /\ alive
    /\ pc[e] = "idle"
    /\ emitted[e] < MaxOps
    /\ emitted' = [emitted EXCEPT ![e] = @ + 1]
    /\ outbox' = Append(outbox, <<e, emitted[e]>>)
    /\ pc' = [pc EXCEPT ![e] = "queued"]
    /\ UNCHANGED <<outboxScheduled, flushes, alive, hasView, delivered, evals>>

EnqueueOp(e) ==
    /\ alive
    /\ pc[e] = "idle"
    /\ emitted[e] < MaxOps
    /\ emitted' = [emitted EXCEPT ![e] = @ + 1]
    /\ outbox' = Append(outbox, <<e, emitted'[e]>>)
    /\ pc' = [pc EXCEPT ![e] = "queued"]
    /\ UNCHANGED <<outboxScheduled, flushes, alive, hasView, delivered, evals>>

(***************************************************************************)
(* ScheduleFlush: the test and the setting of the flag are one critical    *)
(* section; the flush is posted after it.                                  *)
(***************************************************************************)
\* Fault: the flag is tested but set only by the flush itself.
ScheduleFlushNoFlag(e) ==
    /\ pc[e] = "queued"
    /\ pc' = [pc EXCEPT ![e] = IF outboxScheduled THEN "idle" ELSE "post"]
    /\ UNCHANGED <<outbox, outboxScheduled, flushes, alive, hasView,
                   emitted, delivered, evals>>

ScheduleFlush(e) ==
    /\ pc[e] = "queued"
    /\ outboxScheduled' = TRUE
    /\ pc' = [pc EXCEPT ![e] = IF outboxScheduled THEN "idle" ELSE "post"]
    /\ UNCHANGED <<outbox, flushes, alive, hasView, emitted, delivered, evals>>

PostFlush(e) ==
    /\ pc[e] = "post"
    /\ flushes' = flushes + 1
    /\ pc' = [pc EXCEPT ![e] = "idle"]
    /\ UNCHANGED <<outbox, outboxScheduled, alive, hasView, emitted, delivered, evals>>

(***************************************************************************)
(* The posted flush: nothing once the window is deleted; without a webview *)
(* it returns before it clears the flag.                                   *)
(***************************************************************************)
EvalBatch ==
    /\ delivered' = delivered \o outbox
    /\ evals' = IF outbox = <<>> THEN evals ELSE evals + 1

\* Fault: the flag is left set when the batch is taken.
FlushOutboxKeepsFlag ==
    /\ flushes > 0
    /\ flushes' = flushes - 1
    /\ IF alive /\ hasView
       THEN EvalBatch /\ outbox' = <<>>
       ELSE UNCHANGED <<outbox, delivered, evals>>
    /\ UNCHANGED <<outboxScheduled, pc, alive, hasView, emitted>>

\* Fault: the operations are copied, not swapped out.
FlushOutboxCopies ==
    /\ flushes > 0
    /\ flushes' = flushes - 1
    /\ IF alive /\ hasView
       THEN EvalBatch /\ outboxScheduled' = FALSE
       ELSE UNCHANGED <<outboxScheduled, delivered, evals>>
    /\ UNCHANGED <<outbox, pc, alive, hasView, emitted>>

FlushOutbox ==
    /\ flushes > 0
    /\ flushes' = flushes - 1
    /\ IF alive /\ hasView
       THEN EvalBatch /\ outboxScheduled' = FALSE /\ outbox' = <<>>
       ELSE UNCHANGED <<outbox, outboxScheduled, delivered, evals>>
    /\ UNCHANGED <<pc, alive, hasView, emitted>>

\* ~Impl: no thread is inside a method of the window.
DeleteWindow ==
    /\ alive
    /\ \A e \in Emitters : pc[e] = "idle"
    /\ alive' = FALSE
    /\ UNCHANGED <<outbox, outboxScheduled, pc, flushes, hasView,
                   emitted, delivered, evals>>

Next ==
    \/ \E e \in Emitters : EnqueueOp(e) \/ ScheduleFlush(e) \/ PostFlush(e)
    \/ FlushOutbox
    \/ DeleteWindow

(***************************************************************************)
(* A thread finishes the emission it began; the main loop runs a posted    *)
(* callback (EventuallyRuns of MainLoopGtk and MainLoopWin).               *)
(***************************************************************************)
Fairness ==
    /\ \A e \in Emitters : WF_vars(ScheduleFlush(e)) /\ WF_vars(PostFlush(e))
    /\ WF_vars(FlushOutbox)

Spec == Init /\ [][Next]_vars /\ Fairness

-----------------------------------------------------------------------------
TypeOK ==
    /\ outbox \in Seq(Op)
    /\ outboxScheduled \in BOOLEAN
    /\ pc \in [Emitters -> {"idle", "queued", "post"}]
    /\ flushes \in Nat
    /\ alive \in BOOLEAN
    /\ hasView \in BOOLEAN
    /\ emitted \in [Emitters -> 0 .. MaxOps]
    /\ delivered \in Seq(Op)
    /\ evals \in Nat

(***************************************************************************)
(* No lost wakeup: an operation waiting in the outbox of a living window   *)
(* has a flush posted for it, or a thread that is about to post one.  The  *)
(* flag never silences the last emission.                                  *)
(***************************************************************************)
NoLostFlush ==
    alive /\ hasView /\ outbox # <<>> =>
        flushes > 0 \/ \E e \in Emitters : pc[e] # "idle"

(***************************************************************************)
(* "los _apply/_event se encolan y salen en UN solo eval por tick": at     *)
(* most one flush is posted or about to be posted at any time, so a burst  *)
(* of emissions between two ticks costs one evaluation.                    *)
(***************************************************************************)
OneFlushPerTick ==
    /\ flushes <= 1
    /\ \A e \in Emitters : pc[e] = "post" =>
        /\ flushes = 0
        /\ \A f \in Emitters \ {e} : pc[f] # "post"

(***************************************************************************)
(* Whatever is emitted for a page that exists is evaluated in it, unless   *)
(* the window is deleted first.                                            *)
(***************************************************************************)
EventuallyDelivered ==
    hasView => \A e \in Emitters : \A n \in 1 .. MaxOps :
        emitted[e] >= n ~> \/ ~alive
                           \/ \E k \in 1 .. Len(delivered) : delivered[k] = <<e, n>>

(***************************************************************************)
(* The outbox is a FIFO channel that loses and repeats nothing.            *)
(***************************************************************************)
Channel == INSTANCE EventChannel WITH inFlight <- outbox

ImplementsChannel == Channel!Spec
=============================================================================
